---- MODULE Spec2Model ----
(***************************************************************************)
(* Motor-communication core of aruwlib / taproot: the CAN receive dispatch *)
(* table (CanRxHandler), the DJI motor feedback decoder (DjiMotor and      *)
(* DjiMotorEncoder), redundant encoder fusion (FallbackEncoder) and the    *)
(* transmit aggregator (DjiMotorTxHandler); with them the motor simulator's *)
(* CanSerializer, DoubleDjiMotor, the damage tracker of RefSerial and      *)
(* UnjamIntegralCommand.                                                   *)
(*                                                                         *)
(* Every component has its own specifications (SpecRx, SpecPoll; SpecEnc,  *)
(* SpecMotor, SpecOnline, SpecHome; SpecFb, SpecCtor, SpecFused; SpecTx,   *)
(* SpecCmd; SpecParse; SpecDouble; SpecRef; SpecUnjam, SpecUnjamLive), and *)
(* SpecLife follows DjiMotor objects through both handlers; a              *)
(* specification leaves the components it does not exercise at their       *)
(* constructed value.                                                      *)
(***************************************************************************)
EXTENDS Integers, Sequences, FiniteSets, TLC

VARIABLES
    \* CanRxHandler (mcb-2019-2020-project)
    rxListeners,              \* per listener: [canBus, canIdentifier]
    messageHandlerStoreCan1,  \* 0..7 -> listener or Null
    messageHandlerStoreCan2,
    rxHalted,                 \* modm_assert failed: the process was abandoned
    rxOob,                    \* a store outside a dispatch array happened
    rxLast,                   \* the last CanRxHandler call
    canRxBuffer,              \* per bus: the messages the CAN driver holds, oldest first
    \* DjiMotor under test and its internal DjiMotorEncoder
    motorInverted,
    desiredOutput,
    shaftRPM,
    torque,
    temperature,
    motorDisconnectTimeout,
    encoderWrapped,
    encoderUnwrapped,
    encoderRevolutions,
    encoderHomePosition,
    encShaftRPM,
    encoderDisconnectTimeout,
    clock,                    \* milliseconds since boot
    lastCall,                 \* the last call made on the motor / encoder
    lastFeedbackTime,         \* when the last matching feedback frame came; -1: never
    motorLife,                \* per motor object: "constructed", "initialized", "destroyed"
    \* FallbackEncoder<COUNT> over mock encoder slots
    encoders,                 \* slot -> TRUE when the slot is non-null
    encOnline,                \* slot -> what the slot's isOnline() returns
    seenEncoders,             \* the seenEncoders bit mask, as the set of set bits
    fbOnlineResult,           \* what the last FallbackEncoder::isOnline() returned
    fbHist,                   \* the last call, the slots it used, and alignment history
    \* DjiMotorTxHandler
    txMotors,                 \* per motor: [canBus, motorIdentifier, currentControl,
                              \*             desiredOutput]
    can1MotorStore,           \* 0..7 -> motor or Null
    can2MotorStore,
    txHalted,
    txLast,                   \* what the last DjiMotorTxHandler call did
    \* RefSerial
    refSerial,                \* [receivedDps, receivedDpsTracker, previousHp, currentHp,
                              \*  refSerialOfflineTimeout, last]
    \* UnjamIntegralCommand and the subsystem it drives
    unjamCommand,             \* the command's fields, its config and its scheduling
    setpointSubsystem         \* [integral, online, setpoint, jamCleared]

rxVars == <<rxListeners, messageHandlerStoreCan1, messageHandlerStoreCan2, rxHalted, rxOob,
            rxLast, canRxBuffer>>
encVars == <<encoderWrapped, encoderUnwrapped, encoderRevolutions, encoderHomePosition,
             encShaftRPM, encoderDisconnectTimeout>>
motorVars == <<desiredOutput, shaftRPM, torque, temperature, motorDisconnectTimeout>>
refVars == <<refSerial>>
unjamVars == <<unjamCommand, setpointSubsystem>>
djiVars == <<motorInverted, motorVars, encVars, clock, lastCall, lastFeedbackTime,
             motorLife, refVars, unjamVars>>
fbVars == <<encoders, encOnline, seenEncoders, fbOnlineResult, fbHist>>
txVars == <<txMotors, can1MotorStore, can2MotorStore, txHalted, txLast>>
vars == <<rxVars, djiVars, fbVars, txVars>>

\* nullptr; motors and listeners are numbered from 1.
Null == 0

----------------------------------------------------------------------------
(* Fixed-width integer conversions of the C++ code. *)

ToUint8(x) == x % 256

ToInt8(x) == ((x + 128) % 256) - 128

ToUint16(x) == x % 65536

ToInt16(x) == ((x + 32768) % 65536) - 32768

SHRT_MIN == -32768

SHRT_MAX == 32767

INT32_MAX == 2147483647

INT32_MIN == (-INT32_MAX) - 1

limitVal(val, min, max) ==
    IF min > max THEN val
    ELSE IF val < min THEN min
    ELSE IF val > max THEN max
    ELSE val

Abs(x) == IF x < 0 THEN -x ELSE x

----------------------------------------------------------------------------
(* CAN identifiers and messages. *)

MOTOR1 == 513

MOTOR4 == 516

MOTOR8 == 520

DJI_MOTORS_PER_CAN == 8

CanBuses == {1, 2}

\* A feedback frame: [encHi, encLo, rpmHi, rpmLo, torqueHi, torqueLo, temp, reserved];
\* data[k] of the code is data[k + 1] here.
FeedbackMessage(id, enc, rpm, trq, temp) ==
    [identifier |-> id,
     data |-> <<enc \div 256, enc % 256, rpm \div 256, rpm % 256,
                trq \div 256, trq % 256, temp, 0>>]

----------------------------------------------------------------------------
(* tap::arch::MilliTimeout *)

TimeoutStopped == [isRunning |-> FALSE, expireTime |-> 0]

TimeoutRestart(timeout) == [isRunning |-> TRUE, expireTime |-> clock + timeout]

TimeoutNeverStopped(t) == FALSE

TimeoutIsStopped(t) == ~t.isRunning

TimeoutIsExpiredLate(t) == t.isRunning /\ clock > t.expireTime

TimeoutIsExpired(t) == t.isRunning /\ clock >= t.expireTime

MOTOR_DISCONNECT_TIME == 100

----------------------------------------------------------------------------
(* DjiMotorEncoder *)

ENC_RESOLUTION == 8192

\* Bounds of the encoder model: the accumulated position is kept within
\* MaxRevolutions turns, and the raw encoder fields fed are the corner values.
MaxRevolutions == 2

EncRawInputs == {0, 1, 50, 4095, 4096, 4097, 8000, 8191}

EncInitWrapped == {0, 4096, 8191}

\* No call yet, and no raw encoder field received yet (arg is the last raw
\* encoder field received; a reset keeps it).
NoCall == [op |-> "none", arg |-> -1]

\* DjiMotorEncoder::DjiMotorEncoder; shaftRPM is not initialised by the constructor.
DjiMotorEncoderInit ==
    /\ encoderWrapped \in EncInitWrapped
    /\ encoderUnwrapped = encoderWrapped
    /\ encoderRevolutions \in {0, 1}
    /\ encoderHomePosition = 0
    /\ encShaftRPM \in {0, 1}
    /\ encoderDisconnectTimeout = TimeoutStopped

\* The change of encoderUnwrapped made by updateEncoderValue: the +-ENC_RESOLUTION
\* correction, then enc_dif.
UnwrapStepNoCorrection(oldWrapped, newEncWrapped) ==
    ToInt16(newEncWrapped - oldWrapped)

UnwrapStep(oldWrapped, newEncWrapped) ==
    LET enc_dif == ToInt16(newEncWrapped - oldWrapped)
    IN  (IF enc_dif < (-ENC_RESOLUTION) \div 2 THEN ENC_RESOLUTION
         ELSE IF enc_dif > ENC_RESOLUTION \div 2 THEN -ENC_RESOLUTION
         ELSE 0) + enc_dif

updateEncoderValueFromReading(newEncWrapped) ==
    /\ encoderUnwrapped' = newEncWrapped
    /\ encoderWrapped' = newEncWrapped

updateEncoderValue(newEncWrapped) ==
    /\ encoderUnwrapped' = encoderUnwrapped + UnwrapStep(encoderWrapped, newEncWrapped)
    /\ encoderWrapped' = newEncWrapped

\* The value processMessage hands to updateEncoderValue (a uint16_t parameter).
EncoderRelativeNoWrap(encoderActual, home) ==
    ToUint16(encoderActual - home)

EncoderRelative(encoderActual, home) ==
    LET encoderRelativeToHome == encoderActual - home
    IN  ToUint16(IF encoderRelativeToHome < 0
                 THEN ENC_RESOLUTION + encoderRelativeToHome
                 ELSE encoderRelativeToHome)

DjiMotorEncoderProcessMessage(message) ==
    /\ encoderDisconnectTimeout' = TimeoutRestart(MOTOR_DISCONNECT_TIME)
    /\ encShaftRPM' =
         LET rpm == ToInt16(message.data[3] * 256 + message.data[4])
         IN  IF motorInverted THEN ToInt16(-rpm) ELSE rpm
    /\ LET raw == ToUint16(message.data[1] * 256 + message.data[2])
           encoderActual == IF motorInverted THEN ToUint16(ENC_RESOLUTION - 1 - raw) ELSE raw
       IN  updateEncoderValue(EncoderRelative(encoderActual, encoderHomePosition))
    /\ UNCHANGED <<encoderRevolutions, encoderHomePosition>>

\* The home position resetEncoderValue stores (a uint16_t).
RehomedPositionKeepsHome(wrapped, home) == home

RehomedPosition(wrapped, home) == ToUint16((wrapped + home) % ENC_RESOLUTION)

DjiMotorEncoderResetEncoderValue ==
    /\ encoderRevolutions' = 0
    /\ encoderHomePosition' = RehomedPosition(encoderWrapped, encoderHomePosition)
    /\ encoderWrapped' = 0
    /\ encoderUnwrapped' = 0
    /\ UNCHANGED <<encShaftRPM, encoderDisconnectTimeout>>

DjiMotorEncoderIsOnline ==
    ~TimeoutIsExpired(encoderDisconnectTimeout) /\ ~TimeoutIsStopped(encoderDisconnectTimeout)

----------------------------------------------------------------------------
(* DjiMotor *)

MotorIdentifier == MOTOR1

MOTOR2 == 514

\* Inputs of the motor model: the corner values of an int32 command, of a 16-bit
\* feedback field and of the temperature byte.
OutputInputs == {INT32_MIN, -32769, SHRT_MIN, -32767, -1, 0, 1, SHRT_MAX, 32768, INT32_MAX}

FieldInputs == {1, 32767, 32768, 65535}

TempInputs == {1, 127, 128, 255}

DjiMotorInit ==
    /\ desiredOutput = 0
    /\ shaftRPM = 0
    /\ temperature = 0
    /\ torque = 0
    /\ motorDisconnectTimeout = TimeoutStopped

\* "motorInverted ? -x : x" stored into an int16_t.
InvertInt16(inverted, x) ==
    IF inverted THEN ToInt16(-x) ELSE x

TemperatureOf(byte) == ToInt8(byte)

\* The "message.identifier != DjiMotor::getMotorIdentifier()" test.
NotForThisMotorNever(identifier) == FALSE

NotForThisMotor(identifier) == identifier # MotorIdentifier

DjiMotorProcessMessage(message) ==
    IF NotForThisMotor(message.identifier)
    THEN UNCHANGED <<motorVars, encVars>>
    ELSE /\ shaftRPM' =
              InvertInt16(motorInverted, ToInt16(message.data[3] * 256 + message.data[4]))
         /\ torque' =
              InvertInt16(motorInverted, ToInt16(message.data[5] * 256 + message.data[6]))
         /\ temperature' = TemperatureOf(message.data[7])
         /\ motorDisconnectTimeout' = TimeoutRestart(MOTOR_DISCONNECT_TIME)
         /\ DjiMotorEncoderProcessMessage(message)
         /\ UNCHANGED desiredOutput

DjiMotorSetDesiredOutput(v) ==
    /\ LET desOutputNotInverted == ToInt16(limitVal(v, SHRT_MIN, SHRT_MAX))
       IN  desiredOutput' = InvertInt16(motorInverted, desOutputNotInverted)
    /\ UNCHANGED <<shaftRPM, torque, temperature, motorDisconnectTimeout, encVars>>

DjiMotorIsMotorOnline ==
    ~TimeoutIsExpired(motorDisconnectTimeout) /\ ~TimeoutIsStopped(motorDisconnectTimeout)

----------------------------------------------------------------------------
(* FallbackEncoder<COUNT> *)

\* Bound: the number of slots of the fused encoder (the template parameter).
FbCount == 3

Slots == 0 .. (FbCount - 1)

Secondaries == 1 .. (FbCount - 1)

\* The positions a slot's getPositionUnwrapped() may return.
PositionValues == {0, 3}

\* What a read returned: the quotient num / den of the float division, not a
\* number (nan) when the division was 0 / 0.
NoResult == [nan |-> FALSE, num |-> 0, den |-> 1]

\* No call was made yet.  Besides the last call, fbHist holds what the call did
\* to the slots: slots, the slots whose value or reset it used; aligns, the
\* calls it made to align one slot with another, in order; values, what the
\* slots answer to the read; result, what the read returned.  aligned,
\* resetCalled and primaryLost are history.
NoFbHist ==
    [last |-> "none", aligned |-> {}, resetCalled |-> FALSE, slots |-> {},
     aligns |-> <<>>, values |-> [i \in Slots |-> 0], result |-> NoResult,
     primaryLost |-> {}]

\* The assertion of the constructor.
FallbackEncoderAssertionAllSlots(e) == \A i \in Slots : e[i]

FallbackEncoderAssertion(e) == e[0]

\* The constructor succeeded: slot 0 is non-null, no slot was seen.  A null slot
\* has no isOnline() to call; it is kept FALSE.
FallbackEncoderInit ==
    /\ encoders \in {e \in [Slots -> BOOLEAN] : e[0]}
    /\ encOnline = [i \in Slots |-> FALSE]
    /\ seenEncoders = {}
    /\ fbOnlineResult = FALSE
    /\ fbHist = NoFbHist

\* The constructor, called with the array the variable encoders holds.
FallbackEncoderConstructor ==
    /\ fbHist' = [NoFbHist EXCEPT
                     !.last = IF FallbackEncoderAssertion(encoders) THEN "none"
                              ELSE "halted"]
    /\ seenEncoders' = {}
    /\ UNCHANGED <<encoders, encOnline, fbOnlineResult>>

seenEncoder(seen, index) == index \in seen

validEncoderIgnoresSeen(seen, index) ==
    encoders[index] /\ encOnline[index]

validEncoder(seen, index) ==
    seenEncoder(seen, index) /\ encoders[index] /\ encOnline[index]

\* The loop of syncEncoders from slot i on, over the running value of the mask.
RECURSIVE SyncLoop(_, _)
SyncLoop(i, seen) ==
    IF i >= FbCount THEN seen
    ELSE SyncLoop(i + 1,
            IF encoders[i] /\ encOnline[i] /\ ~seenEncoder(seen, i) THEN seen \cup {i}
            ELSE IF validEncoder(seen, i) /\ ~seenEncoder(seen, 0) THEN seen \cup {0}
            ELSE seen)

syncEncodersAlways(seen) == SyncLoop(1, seen) \cup {0}

syncEncodersNever(seen) == seen

syncEncoders(seen) ==
    IF encOnline[0] THEN SyncLoop(1, seen) \cup {0} ELSE seen

\* The slots a read averages over, after its synchronization pass.
ValidSlots(seen) == {i \in Slots : validEncoder(seen, i)}

\* History: the secondaries that were online during a synchronization pass in
\* which the primary was online.
AlignedAfterPass ==
    fbHist.aligned \cup
        (IF encOnline[0] THEN {i \in Secondaries : encoders[i] /\ encOnline[i]} ELSE {})

\* The calls a synchronization pass makes to align one slot with another: none.
\* A pass calls isOnline() on the slots and writes seenEncoders; the zeroTo call
\* of each branch of its loop is a comment.
SyncAlignCalls(seen) == <<>>

\* History: the secondaries that a pass found valid while the primary was
\* offline and that have been online ever since; empty once a pass finds the
\* primary online.
PrimaryLostAfterPass(seen) ==
    IF encOnline[0] THEN {}
    ELSE fbHist.primaryLost \cup {i \in Secondaries : validEncoder(seen, i)}

\* What a call with a synchronization pass leaves in fbHist.
HistAfterPass(op, seen, used, values, result) ==
    [fbHist EXCEPT !.last = op, !.aligned = AlignedAfterPass, !.slots = used,
                   !.aligns = SyncAlignCalls(seenEncoders), !.values = values,
                   !.result = result, !.primaryLost = PrimaryLostAfterPass(seen)]

FallbackEncoderIsOnline ==
    LET seen == syncEncoders(seenEncoders)
    IN  /\ seenEncoders' = seen
        /\ fbOnlineResult' = (\E i \in Slots : validEncoder(seen, i))
        /\ fbHist' = HistAfterPass("isOnline", seen, {}, NoFbHist.values, NoResult)
        /\ UNCHANGED <<encoders, encOnline>>

\* "position += ..." over the slots of S, from 0.
RECURSIVE PositionSum(_, _)
PositionSum(S, values) ==
    IF S = {} THEN 0
    ELSE LET i == CHOOSE x \in S : TRUE
         IN  values[i] + PositionSum(S \ {i}, values)

\* "return position / onlineEncoders": a float divided by the count converted
\* to float; with no valid slot this is 0.0f / 0.0f, which is not a number.
ReadQuotientOverCount(position, onlineEncoders) ==
    [nan |-> FALSE, num |-> position, den |-> FbCount]

ReadQuotient(position, onlineEncoders) ==
    IF onlineEncoders = 0
    THEN [nan |-> TRUE, num |-> position, den |-> onlineEncoders]
    ELSE [nan |-> FALSE, num |-> position, den |-> onlineEncoders]

\* values[i] is what slot i answers to getPositionUnwrapped().
FallbackEncoderGetPositionUnwrapped(values) ==
    LET seen == syncEncoders(seenEncoders)
        position == PositionSum(ValidSlots(seen), values)
        onlineEncoders == Cardinality(ValidSlots(seen))
    IN  /\ seenEncoders' = seen
        /\ fbHist' = HistAfterPass("getPosition", seen, ValidSlots(seen), values,
                                   ReadQuotient(position, onlineEncoders))
        /\ UNCHANGED <<encoders, encOnline, fbOnlineResult>>

\* The aligned marks resetEncoderValue leaves.
MarksAfterResetKept(seen) == seen

MarksAfterReset(seen) == {i \in seen : validEncoder(seen, i)}

\* Iteration i of the loop reads and writes bit i only, so the loop is one pass.
FallbackEncoderResetEncoderValue ==
    LET seen == syncEncoders(seenEncoders)
    IN  /\ seenEncoders' = MarksAfterReset(seen)
        /\ fbHist' = [HistAfterPass("reset", seen, ValidSlots(seen), NoFbHist.values,
                                    NoResult)
                         EXCEPT !.resetCalled = TRUE]
        /\ UNCHANGED <<encoders, encOnline, fbOnlineResult>>

\* The environment: a non-null slot's encoder comes online or drops.
FbSetOnline(i, b) ==
    /\ encoders[i]
    /\ encOnline[i] # b
    /\ encOnline' = [encOnline EXCEPT ![i] = b]
    /\ fbHist' = [fbHist EXCEPT !.last = "setOnline", !.slots = {}, !.aligns = <<>>,
                                !.values = NoFbHist.values, !.result = NoResult,
                                !.primaryLost = IF b THEN @ ELSE @ \ {i}]
    /\ UNCHANGED <<encoders, seenEncoders, fbOnlineResult>>

----------------------------------------------------------------------------
(* DjiMotorTxHandler *)

\* Bound: the number of DjiMotor objects that exist.
NumMotors == 2

Motors == 1 .. NumMotors

MOTOR6 == 518

\* An identifier just past MOTOR8.
IdPastMotor8 == MOTOR8 + 1

\* The motors that may exist: index 0, index 5 with and without current control,
\* and an identifier past MOTOR8, on either bus; desiredOutput(0) as constructed.
TxMotorConfigs ==
    {[canBus |-> b, motorIdentifier |-> k[1], currentControl |-> k[2], desiredOutput |-> 0] :
        b \in CanBuses,
        k \in {<<MOTOR1, FALSE>>, <<MOTOR6, FALSE>>, <<MOTOR6, TRUE>>, <<IdPastMotor8, FALSE>>}}

FrameKinds == {"low", "high", "6020current"}

NoTxCall == [op |-> "none"]

DjiMotorTxHandlerInit ==
    /\ txMotors \in [Motors -> TxMotorConfigs]
    /\ can1MotorStore = [i \in 0 .. (DJI_MOTORS_PER_CAN - 1) |-> Null]
    /\ can2MotorStore = [i \in 0 .. (DJI_MOTORS_PER_CAN - 1) |-> Null]
    /\ txHalted = FALSE
    /\ txLast = NoTxCall

\* The macro of dji_motor_tx_handler.hpp, evaluated as a uint32_t.
DJI_MOTOR_TO_NORMALIZED_ID(id) ==
    IF id < MOTOR1 THEN DJI_MOTORS_PER_CAN ELSE id - MOTOR1

MotorStoreOf(bus) == IF bus = 1 THEN can1MotorStore ELSE can2MotorStore

\* What canMotorStore[idIndex] != nullptr can evaluate to: past the end of the
\* array the read is out of bounds and may give either answer.
MotorOverloadedValues(store, idIndex) ==
    IF idIndex < DJI_MOTORS_PER_CAN THEN {store[idIndex] # Null} ELSE BOOLEAN

\* The assertion of addMotorToManager.
AddAssertionIgnoresOverload(motorOverloaded, motorOutOfBounds) ==
    ~motorOutOfBounds

AddAssertion(motorOverloaded, motorOutOfBounds) ==
    ~motorOverloaded /\ ~motorOutOfBounds

addMotorToManager(m) ==
    LET motor == txMotors[m]
        store == MotorStoreOf(motor.canBus)
        idIndex == DJI_MOTOR_TO_NORMALIZED_ID(motor.motorIdentifier)
        motorOutOfBounds == idIndex >= DJI_MOTORS_PER_CAN
    IN  \E motorOverloaded \in MotorOverloadedValues(store, idIndex) :
            IF AddAssertion(motorOverloaded, motorOutOfBounds)
            THEN /\ IF motor.canBus = 1
                    THEN /\ can1MotorStore' = [can1MotorStore EXCEPT ![idIndex] = m]
                         /\ UNCHANGED can2MotorStore
                    ELSE /\ can2MotorStore' = [can2MotorStore EXCEPT ![idIndex] = m]
                         /\ UNCHANGED can1MotorStore
                 /\ txLast' = [op |-> "add", motor |-> m, sent |-> <<>>]
                 /\ UNCHANGED <<txMotors, txHalted>>
            ELSE /\ txHalted' = TRUE
                 /\ txLast' = [op |-> "add", motor |-> m, sent |-> <<>>]
                 /\ UNCHANGED <<txMotors, can1MotorStore, can2MotorStore>>

\* The "invalid motor id" test of removeFromMotorManager.
RemoveRejectedNever(store, id) == FALSE

RemoveRejected(store, id) ==
    id > DJI_MOTOR_TO_NORMALIZED_ID(MOTOR8) \/ store[id] = Null

removeFromMotorManager(m) ==
    LET motor == txMotors[m]
        store == MotorStoreOf(motor.canBus)
        id == DJI_MOTOR_TO_NORMALIZED_ID(motor.motorIdentifier)
    IN  IF RemoveRejected(store, id)
        THEN /\ txLast' = [op |-> "remove", motor |-> m, error |-> TRUE]
             /\ UNCHANGED <<txMotors, can1MotorStore, can2MotorStore, txHalted>>
        ELSE /\ IF motor.canBus = 1
                THEN /\ can1MotorStore' = [can1MotorStore EXCEPT ![id] = Null]
                     /\ UNCHANGED can2MotorStore
                ELSE /\ can2MotorStore' = [can2MotorStore EXCEPT ![id] = Null]
                     /\ UNCHANGED can1MotorStore
             /\ txLast' = [op |-> "remove", motor |-> m, error |-> FALSE]
             /\ UNCHANGED <<txMotors, txHalted>>

\* DjiMotor::setDesiredOutput on a motor of the registry; lastCommand remembers
\* the argument.
StoreCommandKeepsFirst(motor, v) ==
    [motor EXCEPT !.desiredOutput =
                      IF @ = 0
                      THEN InvertInt16(motor.motorInverted,
                                       ToInt16(limitVal(v, SHRT_MIN, SHRT_MAX)))
                      ELSE @,
                  !.lastCommand = v]

StoreCommand(motor, v) ==
    [motor EXCEPT !.desiredOutput =
                      InvertInt16(motor.motorInverted,
                                  ToInt16(limitVal(v, SHRT_MIN, SHRT_MAX))),
                  !.lastCommand = v]

setDesiredOutput(m, v) ==
    /\ txMotors' = [txMotors EXCEPT ![m] = StoreCommand(@, v)]
    /\ txLast' = [op |-> "set", motor |-> m, sent |-> <<>>]
    /\ UNCHANGED <<can1MotorStore, can2MotorStore, txHalted>>

\* A command frame: eight zero data bytes as constructed (data[k] of the code is
\* data[k + 1] here), not yet valid, no motor serialized into it.
EmptyFrameStaleData == [data |-> <<0, 0, 0, 0, 0, 0, 0, 1>>, valid |-> FALSE, motors |-> {}]

EmptyFrame == [data |-> <<0, 0, 0, 0, 0, 0, 0, 0>>, valid |-> FALSE, motors |-> {}]

\* DjiMotor::serializeCanSendData into a frame, which the handler then marks valid.
serializeCanSendDataLowFirst(m, frame) ==
    LET id == DJI_MOTOR_TO_NORMALIZED_ID(txMotors[m].motorIdentifier) % 4
        out == txMotors[m].desiredOutput
    IN  [frame EXCEPT !.data = [@ EXCEPT ![2 * id + 1] = ToUint8(out % 256),
                                         ![2 * id + 2] = ToUint8(out \div 256)],
                      !.valid = TRUE,
                      !.motors = @ \cup {m}]

serializeCanSendData(m, frame) ==
    LET id == DJI_MOTOR_TO_NORMALIZED_ID(txMotors[m].motorIdentifier) % 4
        out == txMotors[m].desiredOutput
    IN  [frame EXCEPT !.data = [@ EXCEPT ![2 * id + 1] = ToUint8(out \div 256),
                                         ![2 * id + 2] = ToUint8(out % 256)],
                      !.valid = TRUE,
                      !.motors = @ \cup {m}]

\* The frame a motor found in a store is serialized into.
FrameKindOfAlwaysHigh(motor) ==
    IF DJI_MOTOR_TO_NORMALIZED_ID(motor.motorIdentifier) <= DJI_MOTOR_TO_NORMALIZED_ID(MOTOR4)
    THEN "low"
    ELSE "high"

FrameKindOf(motor) ==
    IF DJI_MOTOR_TO_NORMALIZED_ID(motor.motorIdentifier) <= DJI_MOTOR_TO_NORMALIZED_ID(MOTOR4)
    THEN "low"
    ELSE IF motor.currentControl THEN "6020current"
    ELSE "high"

\* The loop of serializeMotorStoreSendData from slot i on, over the three frames.
RECURSIVE SerializeLoop(_, _, _)
SerializeLoop(store, i, frames) ==
    IF i >= DJI_MOTORS_PER_CAN THEN frames
    ELSE IF store[i] = Null THEN SerializeLoop(store, i + 1, frames)
    ELSE LET kind == FrameKindOf(txMotors[store[i]])
         IN  SerializeLoop(store, i + 1,
                 [frames EXCEPT ![kind] = serializeCanSendData(store[i], frames[kind])])

serializeMotorStoreSendData(store) ==
    SerializeLoop(store, 0, [k \in FrameKinds |-> EmptyFrame])

\* The sendMessage calls of one bus, in the order of the code.
SendsOfBusIgnoresReady(bus, ready, frames) ==
    LET one(kind) == IF frames[kind].valid
                     THEN <<[bus |-> bus, kind |-> kind, data |-> frames[kind].data]>>
                     ELSE <<>>
    IN  one("low") \o one("high") \o one("6020current")

SendsOfBus(bus, ready, frames) ==
    LET one(kind) == IF frames[kind].valid
                     THEN <<[bus |-> bus, kind |-> kind, data |-> frames[kind].data]>>
                     ELSE <<>>
    IN  IF ready THEN one("low") \o one("high") \o one("6020current") ELSE <<>>

\* The sendMessage calls really made, of those the valid frames of the ready
\* buses call for: "messageSuccess &= sendMessage(...)" evaluates its right-hand
\* side whatever messageSuccess is.
AttemptedSendsStopAtFailure(sends, failing) ==
    LET failed == {k \in 1 .. Len(sends) : <<sends[k].bus, sends[k].kind>> \in failing}
    IN  IF failed = {} THEN sends
        ELSE SubSeq(sends, 1, CHOOSE k \in failed : \A j \in failed : k <= j)

AttemptedSends(sends, failing) == sends

\* isReadyToSend answers ready[bus]; sendMessage fails for the frames in failing.
encodeAndSendCanData(ready, failing) ==
    LET frames == [b \in CanBuses |-> serializeMotorStoreSendData(MotorStoreOf(b))]
        sent == AttemptedSends(SendsOfBus(1, ready[1], frames[1])
                                   \o SendsOfBus(2, ready[2], frames[2]), failing)
        messageSuccess ==
            \A k \in 1 .. Len(sent) : <<sent[k].bus, sent[k].kind>> \notin failing
    IN  /\ txLast' = [op |-> "tick", ready |-> ready, frames |-> frames, sent |-> sent,
                      failing |-> failing, error |-> ~messageSuccess]
        /\ UNCHANGED <<txMotors, can1MotorStore, can2MotorStore, txHalted>>

----------------------------------------------------------------------------
(* CanRxHandler *)

\* Bound: the number of CanRxListner objects that exist.
NumListeners == 2

Listeners == 1 .. NumListeners

\* An identifier just below MOTOR1.
IdBelowMotor1 == MOTOR1 - 1

MAX_RECEIVE_UNIQUE_HEADER_CAN1 == 8

\* The listeners that may exist: index 0, and the identifiers just below MOTOR1
\* and just past MOTOR8, on either bus.
RxListenerConfigs ==
    {[canBus |-> b, canIdentifier |-> id] : b \in CanBuses, id \in {IdBelowMotor1, MOTOR1, IdPastMotor8}}

RxIndices == 0 .. (MAX_RECEIVE_UNIQUE_HEADER_CAN1 - 1)

NoRxCall == [op |-> "none", listener |-> 0, occupied |-> FALSE]

CanRxHandlerInit ==
    /\ rxListeners \in [Listeners -> RxListenerConfigs]
    /\ messageHandlerStoreCan1 = [i \in RxIndices |-> Null]
    /\ messageHandlerStoreCan2 = [i \in RxIndices |-> Null]
    /\ rxHalted = FALSE
    /\ rxOob = FALSE
    /\ rxLast = NoRxCall
    /\ canRxBuffer = [b \in CanBuses |-> <<>>]

\* The macro of dji_motor_tx_handler.hpp of that tree, an int32_t.
DJI_MOTOR_NORMALIZED_ID(id) == id - MOTOR1

RxStoreOf(bus) == IF bus = 1 THEN messageHandlerStoreCan1 ELSE messageHandlerStoreCan2

RxInRange(id) == id >= 0 /\ id < MAX_RECEIVE_UNIQUE_HEADER_CAN1

\* What messageHandlerStore[id] != nullptr can evaluate to: outside the array the
\* read is out of bounds and may give either answer.
RxOccupiedValues(store, id) ==
    IF RxInRange(id) THEN {store[id] # Null} ELSE BOOLEAN

\* receiveAttachSuccess of attachReceiveHandler.
receiveAttachSuccess(receiveInterfaceOverloaded, inRange) ==
    ~receiveInterfaceOverloaded \/ inRange

\* messageHandlerStore[id] = value: inside the array the slot is written; outside
\* it the store lands in whatever memory follows or precedes the array.
RxStoreWrite(bus, id, value) ==
    IF RxInRange(id)
    THEN /\ IF bus = 1
            THEN /\ messageHandlerStoreCan1' = [messageHandlerStoreCan1 EXCEPT ![id] = value]
                 /\ UNCHANGED messageHandlerStoreCan2
            ELSE /\ messageHandlerStoreCan2' = [messageHandlerStoreCan2 EXCEPT ![id] = value]
                 /\ UNCHANGED messageHandlerStoreCan1
         /\ UNCHANGED rxOob
    ELSE /\ rxOob' = TRUE
         /\ UNCHANGED <<messageHandlerStoreCan1, messageHandlerStoreCan2>>

attachReceiveHandler(l) ==
    LET CanRxHndl == rxListeners[l]
        store == RxStoreOf(CanRxHndl.canBus)
        id == ToInt8(DJI_MOTOR_NORMALIZED_ID(CanRxHndl.canIdentifier))
    IN  \E receiveInterfaceOverloaded \in RxOccupiedValues(store, id) :
            /\ rxLast' = [op |-> "attach", listener |-> l,
                          occupied |-> receiveInterfaceOverloaded]
            /\ IF receiveAttachSuccess(receiveInterfaceOverloaded, RxInRange(id))
               THEN /\ RxStoreWrite(CanRxHndl.canBus, id, l)
                    /\ UNCHANGED <<rxListeners, rxHalted>>
               ELSE /\ rxHalted' = TRUE
                    /\ UNCHANGED <<rxListeners, messageHandlerStoreCan1,
                                   messageHandlerStoreCan2, rxOob>>

\* A negative index converted to uint32_t is 2^32 + n, far past the end of the
\* array; every such index is represented by INT32_MAX.
RxUnsignedIndex(n) == IF n < 0 THEN INT32_MAX ELSE n

removeReceiveHandlerKeepsSlot(l) ==
    /\ rxLast' = [op |-> "remove", listener |-> l, occupied |-> FALSE]
    /\ UNCHANGED <<rxListeners, messageHandlerStoreCan1, messageHandlerStoreCan2,
                   rxHalted, rxOob>>

\* remoteReceiveHandler
removeReceiveHandler(l) ==
    LET rxListner == rxListeners[l]
        store == RxStoreOf(rxListner.canBus)
        id == RxUnsignedIndex(DJI_MOTOR_NORMALIZED_ID(rxListner.canIdentifier))
    IN  \E occupied \in RxOccupiedValues(store, id) :
            /\ rxLast' = [op |-> "remove", listener |-> l, occupied |-> occupied]
            /\ IF ~occupied
               THEN UNCHANGED <<rxListeners, messageHandlerStoreCan1,
                                messageHandlerStoreCan2, rxHalted, rxOob>>
               ELSE /\ RxStoreWrite(rxListner.canBus, id, Null)
                    /\ UNCHANGED <<rxListeners, rxHalted>>

\* Bound: the number of received messages the two CAN drivers hold between polls.
MaxBacklog == 2

\* A received message; the first data byte tells two messages of one identifier
\* apart.
RxMessage(id, tag) == [identifier |-> id, data |-> <<tag, 0, 0, 0, 0, 0, 0, 0>>]

\* Bus traffic: two frames of MOTOR1, one of MOTOR2, and frames just below MOTOR1
\* and just past MOTOR8.
RxMessages ==
    {RxMessage(MOTOR1, 0), RxMessage(MOTOR1, 1), RxMessage(MOTOR2, 0),
     RxMessage(IdBelowMotor1, 0), RxMessage(IdPastMotor8, 0)}

\* modm::platform::CanN::isMessageAvailable
CanIsMessageAvailable(bus) == canRxBuffer[bus] # <<>>

\* modm::platform::CanN::getMessage: the oldest message leaves the driver's buffer.
CanGetMessage(bus) ==
    IF canRxBuffer[bus] = <<>>
    THEN [available |-> FALSE, message |-> RxMessage(0, 0), rest |-> <<>>]
    ELSE [available |-> TRUE, message |-> Head(canRxBuffer[bus]),
          rest |-> Tail(canRxBuffer[bus])]

\* The processMessage calls processReceivedCanData makes.
processReceivedCanDataAnySlot(bus, rxMessage, messageHandlerStore, messageAvailable) ==
    IF ~messageAvailable THEN <<>>
    ELSE LET handlerStoreId == DJI_MOTOR_NORMALIZED_ID(rxMessage.identifier) % 8
         IN  IF messageHandlerStore[handlerStoreId] # Null
             THEN <<[bus |-> bus, listener |-> messageHandlerStore[handlerStoreId],
                     message |-> rxMessage]>>
             ELSE <<>>

processReceivedCanData(bus, rxMessage, messageHandlerStore, messageAvailable) ==
    IF ~messageAvailable THEN <<>>
    ELSE LET handlerStoreId == DJI_MOTOR_NORMALIZED_ID(rxMessage.identifier)
         IN  IF RxInRange(handlerStoreId) /\ messageHandlerStore[handlerStoreId] # Null
             THEN <<[bus |-> bus, listener |-> messageHandlerStore[handlerStoreId],
                     message |-> rxMessage]>>
             ELSE <<>>

\* One "handle incoming CAN n messages" block of pollCanData.
PollBusDrainsAll(bus) ==
    [fetched |-> [k \in 1 .. Len(canRxBuffer[bus]) |->
                     [bus |-> bus, message |-> canRxBuffer[bus][k]]],
     calls |-> IF canRxBuffer[bus] = <<>> THEN <<>>
               ELSE processReceivedCanData(bus, Head(canRxBuffer[bus]), RxStoreOf(bus), TRUE),
     rest |-> <<>>]

PollBusCan1Store(bus) ==
    IF CanIsMessageAvailable(bus)
    THEN LET got == CanGetMessage(bus)
         IN  [fetched |-> <<[bus |-> bus, message |-> got.message]>>,
              calls |-> processReceivedCanData(bus, got.message, messageHandlerStoreCan1,
                                               got.available),
              rest |-> got.rest]
    ELSE [fetched |-> <<>>, calls |-> <<>>, rest |-> canRxBuffer[bus]]

PollBus(bus) ==
    IF CanIsMessageAvailable(bus)
    THEN LET got == CanGetMessage(bus)
         IN  [fetched |-> <<[bus |-> bus, message |-> got.message]>>,
              calls |-> processReceivedCanData(bus, got.message, RxStoreOf(bus),
                                               got.available),
              rest |-> got.rest]
    ELSE [fetched |-> <<>>, calls |-> <<>>, rest |-> canRxBuffer[bus]]

pollCanData ==
    LET can1 == PollBus(1)
        can2 == PollBus(2)
    IN  /\ canRxBuffer' = [b \in CanBuses |-> IF b = 1 THEN can1.rest ELSE can2.rest]
        /\ rxLast' = [op |-> "poll", listener |-> 0, occupied |-> FALSE,
                      fetched |-> can1.fetched \o can2.fetched,
                      calls |-> can1.calls \o can2.calls]
        /\ UNCHANGED <<rxListeners, messageHandlerStoreCan1, messageHandlerStoreCan2,
                       rxHalted, rxOob>>

\* The environment: a frame arrives on a bus and the driver buffers it.
CanReceive(bus, message) ==
    /\ Len(canRxBuffer[1]) + Len(canRxBuffer[2]) < MaxBacklog
    /\ canRxBuffer' = [canRxBuffer EXCEPT ![bus] = Append(@, message)]
    /\ rxLast' = [op |-> "receive", listener |-> 0, occupied |-> FALSE]
    /\ UNCHANGED <<rxListeners, messageHandlerStoreCan1, messageHandlerStoreCan2,
                   rxHalted, rxOob>>

----------------------------------------------------------------------------
(* RefSerial: the damage-per-second tracker.  receivedDpsTracker is a       *)
(* modm::BoundedDeque, modelled as a sequence whose head is the front:      *)
(* append() adds at the back, removeBack() drops the last appended element  *)
(* and removeFront() the oldest.                                            *)

DPS_TRACKER_DEQUE_SIZE == 20
TIME_OFFLINE_REF_DATA_MS == 1000

\* The message types that matter here: the robot status message carries the
\* HP; no other decoder touches the tracker.
RefMessageTypes == {"REF_MESSAGE_TYPE_ROBOT_STATUS", "REF_MESSAGE_TYPE_GAME_STATUS"}
\* Length of a well-formed robot status message, and a malformed length.
RefMessageLengths == {27, 13}

\* RefSerial::RefSerial
RefSerialConstructor ==
    [receivedDps |-> 0,
     receivedDpsTracker |-> <<>>,
     previousHp |-> 0,
     currentHp |-> 0,
     refSerialOfflineTimeout |-> TimeoutStopped,
     last |-> "none"]

\* RefSerial::updateReceivedDamage
RECURSIVE updateReceivedDamage(_)
updateReceivedDamage(r) ==
    IF /\ Len(r.receivedDpsTracker) > 0
       /\ clock > Head(r.receivedDpsTracker).timestampMs + 1000
    THEN updateReceivedDamage(
             [r EXCEPT !.receivedDps = @ - Head(r.receivedDpsTracker).damageAmount,
                       !.receivedDpsTracker = Tail(@)])
    ELSE r

\* RefSerial::processReceivedDamage
processReceivedDamage(r, timestamp, damageTaken) ==
    IF damageTaken > 0
    THEN LET damageEvent == [damageAmount |-> ToUint16(damageTaken),
                             timestampMs |-> timestamp]
             afterRemoveBack ==
                 IF Len(r.receivedDpsTracker) = DPS_TRACKER_DEQUE_SIZE
                 THEN SubSeq(r.receivedDpsTracker, 1, Len(r.receivedDpsTracker) - 1)
                 ELSE r.receivedDpsTracker
         IN  [r EXCEPT !.receivedDps = @ + damageTaken,
                       !.receivedDpsTracker = Append(afterRemoveBack, damageEvent)]
    ELSE r

\* RefSerial::decodeToRobotStatus
decodeToRobotStatus(r, length, currentHp) ==
    IF length # 27
    THEN r
    ELSE [processReceivedDamage(r, clock, r.previousHp - currentHp)
             EXCEPT !.currentHp = currentHp, !.previousHp = currentHp]

\* RefSerial::messageReceiveCallback
messageReceiveCallback(type, length, currentHp) ==
    LET restarted == [refSerial EXCEPT
                         !.refSerialOfflineTimeout = TimeoutRestart(TIME_OFFLINE_REF_DATA_MS),
                         !.last = type]
        updated == updateReceivedDamage(restarted)
    IN  refSerial' = IF type = "REF_MESSAGE_TYPE_ROBOT_STATUS"
                     THEN decodeToRobotStatus(updated, length, currentHp)
                     ELSE updated

----------------------------------------------------------------------------
(* UnjamIntegralCommand and the IntegrableSetpointSubsystem it drives.  The *)
(* command's fields and the subsystem are worked on together as a record    *)
(* [cmd, sub]; integrals are whole numbers.                                 *)

UnjamStates == {"UNJAM_BACKWARD", "UNJAM_FORWARD", "JAM_CLEARED"}

\* The assertions of UnjamIntegralCommand::UnjamIntegralCommand
UnjamConfigAsserts(config) ==
    /\ config.targetUnjamIntegralChange > 0
    /\ config.targetCycleCount > 0
    /\ config.maxWaitTime > 0
    /\ (1000 * config.targetUnjamIntegralChange) \div config.unjamSetpoint
           < config.maxWaitTime

\* UnjamIntegralCommand::UnjamIntegralCommand; currUnjamState has no value
\* assigned by the constructor.
UnjamIntegralCommandConstructor(config, state) ==
    [config |-> config,
     currUnjamState |-> state,
     positionBeforeUnjam |-> 0,
     forwardsCleared |-> FALSE,
     backwardsCleared |-> FALSE,
     backwardsCount |-> 0,
     unjamRotateTimeout |-> TimeoutStopped,
     scheduled |-> "constructed",
     last |-> [op |-> "none", clearJam |-> FALSE, online |-> TRUE]]

\* UnjamIntegralCommand::isReady
UnjamIsReady == setpointSubsystem.online

\* UnjamIntegralCommand::beginUnjamForwards
beginUnjamForwards(u) ==
    [cmd |-> [u.cmd EXCEPT
                 !.unjamRotateTimeout = TimeoutRestart(u.cmd.config.maxWaitTime),
                 !.currUnjamState = "UNJAM_FORWARD"],
     sub |-> [u.sub EXCEPT !.setpoint = u.cmd.config.unjamSetpoint]]

BackwardsCountKept(backwardsCount) == backwardsCount

\* backwardsCount += 1 of UnjamIntegralCommand::beginUnjamBackwards
BackwardsCountAfterBegin(backwardsCount) == backwardsCount + 1

\* UnjamIntegralCommand::beginUnjamBackwards
beginUnjamBackwards(u) ==
    [cmd |-> [u.cmd EXCEPT
                 !.unjamRotateTimeout = TimeoutRestart(u.cmd.config.maxWaitTime),
                 !.currUnjamState = "UNJAM_BACKWARD",
                 !.backwardsCount = BackwardsCountAfterBegin(@)],
     sub |-> [u.sub EXCEPT !.setpoint = -u.cmd.config.unjamSetpoint]]

\* UnjamIntegralCommand::initialize
UnjamInitialize(u) ==
    beginUnjamBackwards(
        [u EXCEPT !.cmd.unjamRotateTimeout = TimeoutRestart(u.cmd.config.maxWaitTime),
                  !.cmd.positionBeforeUnjam = u.sub.integral,
                  !.cmd.forwardsCleared = FALSE,
                  !.cmd.backwardsCleared = FALSE,
                  !.cmd.backwardsCount = 0])

\* UnjamIntegralCommand::execute
UnjamExecute(u) ==
    LET curPosition == u.sub.integral
        c == u.cmd
        switched ==
            CASE c.currUnjamState = "UNJAM_BACKWARD" ->
                     IF curPosition
                            <= c.positionBeforeUnjam - c.config.targetUnjamIntegralChange
                     THEN beginUnjamForwards([u EXCEPT !.cmd.backwardsCleared = TRUE])
                     ELSE IF TimeoutIsExpired(c.unjamRotateTimeout)
                     THEN beginUnjamForwards(u)
                     ELSE u
              [] c.currUnjamState = "UNJAM_FORWARD" ->
                     IF curPosition >= c.positionBeforeUnjam
                     THEN beginUnjamBackwards([u EXCEPT !.cmd.forwardsCleared = TRUE])
                     ELSE IF TimeoutIsExpired(c.unjamRotateTimeout)
                     THEN beginUnjamBackwards(u)
                     ELSE u
              [] c.currUnjamState = "JAM_CLEARED" -> u
    IN  IF /\ switched.cmd.currUnjamState # "JAM_CLEARED"
           /\ switched.cmd.forwardsCleared
           /\ switched.cmd.backwardsCleared
        THEN [switched EXCEPT !.cmd.currUnjamState = "JAM_CLEARED"]
        ELSE switched

\* UnjamIntegralCommand::end; clearJam() leaves the subsystem unjammed.  calls
\* lists the calls made on the subsystem.
UnjamEnd(u) ==
    IF u.cmd.currUnjamState = "JAM_CLEARED"
    THEN [cmd |-> u.cmd,
          sub |-> [u.sub EXCEPT !.jammed = FALSE, !.setpoint = 0],
          calls |-> <<"clearJam", "setSetpoint">>]
    ELSE [cmd |-> u.cmd,
          sub |-> [u.sub EXCEPT !.setpoint = 0],
          calls |-> <<"setSetpoint">>]

\* UnjamIntegralCommand::isFinished
UnjamIsFinished ==
    \/ ~setpointSubsystem.online
    \/ unjamCommand.currUnjamState = "JAM_CLEARED"
    \/ unjamCommand.backwardsCount >= unjamCommand.config.targetCycleCount + 1

----------------------------------------------------------------------------
(* The specifications.  A component a specification does not exercise stays *)
(* in one fixed constructed state.                                          *)

RxIdle ==
    /\ rxListeners = [l \in Listeners |-> [canBus |-> 1, canIdentifier |-> MOTOR1]]
    /\ messageHandlerStoreCan1 = [i \in RxIndices |-> Null]
    /\ messageHandlerStoreCan2 = [i \in RxIndices |-> Null]
    /\ rxHalted = FALSE
    /\ rxOob = FALSE
    /\ rxLast = NoRxCall
    /\ canRxBuffer = [b \in CanBuses |-> <<>>]

RefIdle == refSerial = RefSerialConstructor

UnjamConfig(targetCycleCount) ==
    [targetUnjamIntegralChange |-> 2,
     unjamSetpoint |-> 100,
     maxWaitTime |-> 50,
     targetCycleCount |-> targetCycleCount]

SubsystemIdle == [integral |-> 0, online |-> TRUE, setpoint |-> 0, jammed |-> TRUE]

UnjamIdle ==
    /\ unjamCommand = UnjamIntegralCommandConstructor(UnjamConfig(1), "UNJAM_BACKWARD")
    /\ setpointSubsystem = SubsystemIdle

MotorIdle ==
    /\ motorInverted = FALSE
    /\ DjiMotorInit
    /\ encoderWrapped = ENC_RESOLUTION \div 2
    /\ encoderUnwrapped = encoderWrapped
    /\ encoderRevolutions = 0
    /\ encoderHomePosition = 0
    /\ encShaftRPM = 0
    /\ encoderDisconnectTimeout = TimeoutStopped
    /\ clock = 0
    /\ lastCall = NoCall
    /\ lastFeedbackTime = -1
    /\ motorLife = [m \in Motors |-> "constructed"]

DjiIdle ==
    /\ MotorIdle
    /\ RefIdle
    /\ UnjamIdle

FbIdle ==
    /\ encoders = [i \in Slots |-> i = 0]
    /\ encOnline = [i \in Slots |-> FALSE]
    /\ seenEncoders = {}
    /\ fbOnlineResult = FALSE
    /\ fbHist = NoFbHist

TxIdle ==
    /\ txMotors = [m \in Motors |->
                     [canBus |-> 1, motorIdentifier |-> MOTOR1, currentControl |-> FALSE,
                      desiredOutput |-> 0]]
    /\ can1MotorStore = [i \in 0 .. (DJI_MOTORS_PER_CAN - 1) |-> Null]
    /\ can2MotorStore = [i \in 0 .. (DJI_MOTORS_PER_CAN - 1) |-> Null]
    /\ txHalted = FALSE
    /\ txLast = NoTxCall

(* DjiMotorEncoder alone: feedback frames and re-homing. *)

InitEnc ==
    /\ motorInverted \in BOOLEAN
    /\ motorLife = [m \in Motors |-> "constructed"]
    /\ RefIdle
    /\ UnjamIdle
    /\ DjiMotorInit
    /\ DjiMotorEncoderInit
    /\ clock = 0
    /\ lastCall = NoCall
    /\ lastFeedbackTime = -1
    /\ RxIdle /\ FbIdle /\ TxIdle

EncProcessMessage(raw) ==
    /\ DjiMotorEncoderProcessMessage(FeedbackMessage(MotorIdentifier, raw, 0, 0, 0))
    /\ Abs(encoderUnwrapped') <= MaxRevolutions * ENC_RESOLUTION
    /\ lastCall' = [op |-> "processMessage", arg |-> raw,
                    resetOf |-> IF lastCall.op = "resetEncoderValue" THEN lastCall.arg
                                ELSE -1]
    /\ UNCHANGED <<motorInverted, motorLife, refVars, unjamVars, motorVars, clock, lastFeedbackTime, rxVars, fbVars, txVars>>

EncResetEncoderValue ==
    /\ DjiMotorEncoderResetEncoderValue
    /\ lastCall' = [op |-> "resetEncoderValue", arg |-> lastCall.arg]
    /\ UNCHANGED <<motorInverted, motorLife, refVars, unjamVars, motorVars, clock, lastFeedbackTime, rxVars, fbVars, txVars>>

NextEnc ==
    \/ \E raw \in EncRawInputs : EncProcessMessage(raw)
    \/ EncResetEncoderValue

SpecEnc == InitEnc /\ [][NextEnc]_vars

(* DjiMotor: feedback decoding and the command value. *)

\* Feedback frames of the motor itself, and two frames of another identifier.
MotorMessages ==
    {FeedbackMessage(MotorIdentifier, 0, rpm, trq, temp) :
        rpm \in FieldInputs, trq \in FieldInputs, temp \in TempInputs}
    \cup {FeedbackMessage(MOTOR2, 0, f, f, 128) : f \in {1, 32768}}

InitMotor ==
    /\ motorInverted \in BOOLEAN
    /\ motorLife = [m \in Motors |-> "constructed"]
    /\ RefIdle
    /\ UnjamIdle
    /\ DjiMotorInit
    /\ DjiMotorEncoderInit
    /\ encoderWrapped = ENC_RESOLUTION \div 2
    /\ encoderRevolutions = 0
    /\ clock = 0
    /\ lastCall = NoCall
    /\ lastFeedbackTime = -1
    /\ RxIdle /\ FbIdle /\ TxIdle

MotorProcessMessage(message) ==
    /\ DjiMotorProcessMessage(message)
    /\ lastCall' = [op |-> "processMessage", arg |-> message]
    /\ UNCHANGED <<motorInverted, motorLife, refVars, unjamVars, clock, lastFeedbackTime, rxVars, fbVars, txVars>>

MotorSetDesiredOutput(v) ==
    /\ DjiMotorSetDesiredOutput(v)
    /\ lastCall' = [op |-> "setDesiredOutput", arg |-> v]
    /\ UNCHANGED <<motorInverted, motorLife, refVars, unjamVars, clock, lastFeedbackTime, rxVars, fbVars, txVars>>

NextMotor ==
    \/ \E message \in MotorMessages : MotorProcessMessage(message)
    \/ \E v \in OutputInputs : MotorSetDesiredOutput(v)

SpecMotor == InitMotor /\ [][NextMotor]_vars

(* FallbackEncoder: slots coming and going, reads and resets. *)

InitFb ==
    /\ FallbackEncoderInit
    /\ RxIdle /\ DjiIdle /\ TxIdle

FbIsOnline ==
    FallbackEncoderIsOnline /\ UNCHANGED <<rxVars, djiVars, txVars>>

FbGetPositionUnwrapped ==
    \E values \in [Slots -> PositionValues] :
        FallbackEncoderGetPositionUnwrapped(values) /\ UNCHANGED <<rxVars, djiVars, txVars>>

FbResetEncoderValue ==
    FallbackEncoderResetEncoderValue /\ UNCHANGED <<rxVars, djiVars, txVars>>

FbEnvironment ==
    \E i \in Slots, b \in BOOLEAN : FbSetOnline(i, b) /\ UNCHANGED <<rxVars, djiVars, txVars>>

NextFb ==
    \/ FbIsOnline
    \/ FbGetPositionUnwrapped
    \/ FbResetEncoderValue
    \/ FbEnvironment

SpecFb == InitFb /\ [][NextFb]_vars

(* FallbackEncoder from its construction, over every array of slots. *)

\* Before the constructor ran: encoders is the array it will be given.
InitCtor ==
    /\ encoders \in [Slots -> BOOLEAN]
    /\ encOnline = [i \in Slots |-> FALSE]
    /\ seenEncoders = {}
    /\ fbOnlineResult = FALSE
    /\ fbHist = [NoFbHist EXCEPT !.last = "unconstructed"]
    /\ RxIdle /\ DjiIdle /\ TxIdle

CtorConstruct ==
    /\ fbHist.last = "unconstructed"
    /\ FallbackEncoderConstructor
    /\ UNCHANGED <<rxVars, djiVars, txVars>>

\* The object exists: the constructor returned.
CtorConstructed == fbHist.last \notin {"unconstructed", "halted"}

NextCtor ==
    \/ CtorConstruct
    \/ CtorConstructed /\ FbIsOnline
    \/ CtorConstructed /\ FbGetPositionUnwrapped
    \/ CtorConstructed /\ FbResetEncoderValue
    \/ CtorConstructed /\ FbEnvironment

SpecCtor == InitCtor /\ [][NextCtor]_vars

(* DjiMotor and its encoder over time: feedback frames and the disconnect    *)
(* timeouts.                                                                *)

\* Bound: the time the motor is followed for, in milliseconds.
MaxClock == 220

\* The time that passes between two calls: a millisecond, or one short of the
\* disconnect time.
ClockSteps == {1, MOTOR_DISCONNECT_TIME - 1}

\* A feedback frame of the motor and one of another identifier.
OnlineMessages ==
    {FeedbackMessage(id, ENC_RESOLUTION \div 2, 1, 1, 1) : id \in {MotorIdentifier, MOTOR2}}

InitOnline ==
    /\ motorInverted \in BOOLEAN
    /\ motorLife = [m \in Motors |-> "constructed"]
    /\ RefIdle
    /\ UnjamIdle
    /\ DjiMotorInit
    /\ DjiMotorEncoderInit
    /\ encoderWrapped = ENC_RESOLUTION \div 2
    /\ encoderRevolutions = 0
    /\ encShaftRPM = 0
    /\ clock = 0
    /\ lastCall = NoCall
    /\ lastFeedbackTime = -1
    /\ RxIdle /\ FbIdle /\ TxIdle

OnlineProcessMessage(message) ==
    /\ DjiMotorProcessMessage(message)
    /\ lastCall' = [op |-> "processMessage", arg |-> message.identifier]
    /\ lastFeedbackTime' =
         IF message.identifier = MotorIdentifier THEN clock ELSE lastFeedbackTime
    /\ UNCHANGED <<motorInverted, motorLife, refVars, unjamVars, clock, rxVars, fbVars, txVars>>

OnlineTimePasses(dt) ==
    /\ clock + dt <= MaxClock
    /\ clock' = clock + dt
    /\ UNCHANGED <<motorInverted, motorLife, refVars, unjamVars, motorVars, encVars, lastCall, lastFeedbackTime,
                   rxVars, fbVars, txVars>>

NextOnline ==
    \/ \E message \in OnlineMessages : OnlineProcessMessage(message)
    \/ \E dt \in ClockSteps : OnlineTimePasses(dt)

SpecOnline == InitOnline /\ [][NextOnline]_vars

(* DjiMotorEncoder over time: feedback, re-homing and offline periods. *)

\* The raw encoder fields fed and the time that passes between two calls: half
\* the disconnect time.
HomeRawInputs == {50, 4096, 8000}

HomeClockStep == MOTOR_DISCONNECT_TIME \div 2

InitHome ==
    /\ motorInverted \in BOOLEAN
    /\ motorLife = [m \in Motors |-> "constructed"]
    /\ RefIdle
    /\ UnjamIdle
    /\ DjiMotorInit
    /\ DjiMotorEncoderInit
    /\ encoderWrapped = ENC_RESOLUTION \div 2
    /\ encoderRevolutions = 0
    /\ encShaftRPM = 0
    /\ clock = 0
    /\ lastCall = [op |-> "none", arg |-> -1, resumed |-> FALSE]
    /\ lastFeedbackTime = -1
    /\ RxIdle /\ FbIdle /\ TxIdle

\* resumed: the encoder had been online and was offline when the frame came.
HomeProcessMessage(raw) ==
    /\ DjiMotorEncoderProcessMessage(FeedbackMessage(MotorIdentifier, raw, 0, 0, 0))
    /\ Abs(encoderUnwrapped') <= MaxRevolutions * ENC_RESOLUTION
    /\ lastCall' = [op |-> "processMessage", arg |-> raw,
                    resumed |-> TimeoutIsExpired(encoderDisconnectTimeout)]
    /\ UNCHANGED <<motorInverted, motorLife, refVars, unjamVars, motorVars, clock, lastFeedbackTime, rxVars, fbVars, txVars>>

HomeResetEncoderValue ==
    /\ DjiMotorEncoderResetEncoderValue
    /\ lastCall' = [op |-> "resetEncoderValue", arg |-> lastCall.arg, resumed |-> FALSE]
    /\ UNCHANGED <<motorInverted, motorLife, refVars, unjamVars, motorVars, clock, lastFeedbackTime, rxVars, fbVars, txVars>>

HomeTimePasses ==
    /\ clock + HomeClockStep <= MaxClock
    /\ clock' = clock + HomeClockStep
    /\ lastCall' = [op |-> "timePasses", arg |-> lastCall.arg, resumed |-> FALSE]
    /\ UNCHANGED <<motorInverted, motorLife, refVars, unjamVars, motorVars, encVars, lastFeedbackTime, rxVars, fbVars, txVars>>

NextHome ==
    \/ \E raw \in HomeRawInputs : HomeProcessMessage(raw)
    \/ HomeResetEncoderValue
    \/ HomeTimePasses

SpecHome == InitHome /\ [][NextHome]_vars

(* DjiMotor with its fused encoder: the FallbackEncoder<2> over the internal *)
(* encoder and an optional external one.                                     *)

\* The slot of the fused encoder that holds the internal encoder: the
\* constructor puts an external encoder first.
InternalSlotAlwaysPrimary(hasExternal) == 0

InternalSlot(hasExternal) == IF hasExternal THEN 1 ELSE 0

\* The slots of DjiMotor::encoder: {internal, null} or {external, internal};
\* slots past the second do not exist and are kept null.
FusedEncoders(hasExternal) ==
    [i \in Slots |-> i = 0 \/ (hasExternal /\ i = 1)]

HasExternal == encoders[1]

\* The slot of the external encoder, when there is one.
ExternalSlot == 1 - InternalSlot(HasExternal)

\* History: some call so far ran its synchronization pass while the external
\* encoder was online.
ReadOnlineAfterPass == lastCall.readOnline \/ (HasExternal /\ encOnline[ExternalSlot])

InitFused ==
    /\ motorInverted = FALSE
    /\ motorLife = [m \in Motors |-> "constructed"]
    /\ RefIdle
    /\ UnjamIdle
    /\ DjiMotorInit
    /\ DjiMotorEncoderInit
    /\ encoderWrapped = ENC_RESOLUTION \div 2
    /\ encoderRevolutions = 0
    /\ encShaftRPM = 0
    /\ clock = 0
    /\ lastCall = [op |-> "none", arg |-> -1, readOnline |-> FALSE]
    /\ lastFeedbackTime = -1
    /\ encoders \in {FusedEncoders(hasExternal) : hasExternal \in BOOLEAN}
    /\ encOnline = [i \in Slots |-> FALSE]
    /\ seenEncoders = {}
    /\ fbOnlineResult = FALSE
    /\ fbHist = NoFbHist
    /\ RxIdle /\ TxIdle

\* What the slots' isOnline() return once the step is made: the internal
\* encoder's slot answers DjiMotorEncoder::isOnline, an external encoder as
\* before.
FusedSlotsOnline ==
    encOnline' = [i \in Slots |->
                    IF i = InternalSlot(HasExternal) THEN DjiMotorEncoderIsOnline'
                    ELSE encOnline[i]]

FusedProcessMessage(message) ==
    /\ DjiMotorProcessMessage(message)
    /\ lastCall' = [lastCall EXCEPT !.op = "processMessage", !.arg = message.identifier]
    /\ lastFeedbackTime' =
         IF message.identifier = MotorIdentifier THEN clock ELSE lastFeedbackTime
    /\ UNCHANGED <<motorInverted, motorLife, refVars, unjamVars, clock, rxVars, txVars>>
    /\ UNCHANGED <<encoders, seenEncoders, fbOnlineResult, fbHist>>
    /\ FusedSlotsOnline

FusedTimePasses ==
    /\ clock + HomeClockStep <= MaxClock
    /\ clock' = clock + HomeClockStep
    /\ lastCall' = [lastCall EXCEPT !.op = "timePasses"]
    /\ UNCHANGED <<motorInverted, motorLife, refVars, unjamVars, motorVars, encVars, lastFeedbackTime, rxVars, txVars>>
    /\ UNCHANGED <<encoders, seenEncoders, fbOnlineResult, fbHist>>
    /\ FusedSlotsOnline

\* The external encoder comes online or drops.
FusedExternalSetOnline(b) ==
    /\ HasExternal
    /\ FbSetOnline(ExternalSlot, b)
    /\ lastCall' = [lastCall EXCEPT !.op = "externalSetOnline"]
    /\ UNCHANGED <<motorInverted, motorLife, refVars, unjamVars, motorVars, encVars, clock, lastFeedbackTime, rxVars, txVars>>

\* getEncoder()->isOnline()
FusedIsOnline ==
    /\ FallbackEncoderIsOnline
    /\ lastCall' = [lastCall EXCEPT !.op = "isOnline", !.readOnline = ReadOnlineAfterPass]
    /\ UNCHANGED <<motorInverted, motorLife, refVars, unjamVars, motorVars, encVars, clock, lastFeedbackTime, rxVars, txVars>>

\* DjiMotor::resetEncoderValue: the fused reset reaches the internal encoder
\* when its slot is valid.
FusedResetEncoderValue ==
    /\ FallbackEncoderResetEncoderValue
    /\ IF InternalSlot(HasExternal) \in ValidSlots(syncEncoders(seenEncoders))
       THEN DjiMotorEncoderResetEncoderValue
       ELSE UNCHANGED encVars
    /\ lastCall' = [lastCall EXCEPT !.op = "resetEncoderValue",
                                    !.readOnline = ReadOnlineAfterPass]
    /\ UNCHANGED <<motorInverted, motorLife, refVars, unjamVars, motorVars, clock, lastFeedbackTime, rxVars, txVars>>

NextFused ==
    \/ \E message \in OnlineMessages : FusedProcessMessage(message)
    \/ FusedTimePasses
    \/ \E b \in BOOLEAN : FusedExternalSetOnline(b)
    \/ FusedIsOnline
    \/ FusedResetEncoderValue

SpecFused == InitFused /\ [][NextFused]_vars

(* DjiMotorTxHandler: registration and the transmit tick. *)

InitTx ==
    /\ DjiMotorTxHandlerInit
    /\ RxIdle /\ DjiIdle /\ FbIdle

\* The sendMessage failures of a tick: none, the low frame of one bus, or every
\* frame.
SendFailures ==
    {{}} \cup {{<<b, "low">>} : b \in CanBuses} \cup {CanBuses \X FrameKinds}

TxAddMotorToManager(m) ==
    /\ ~txHalted
    /\ addMotorToManager(m)
    /\ UNCHANGED <<rxVars, djiVars, fbVars>>

TxRemoveFromMotorManager(m) ==
    /\ ~txHalted
    /\ removeFromMotorManager(m)
    /\ UNCHANGED <<rxVars, djiVars, fbVars>>

TxEncodeAndSendCanData(ready, failing) ==
    /\ ~txHalted
    /\ encodeAndSendCanData(ready, failing)
    /\ UNCHANGED <<rxVars, djiVars, fbVars>>

NextTx ==
    \/ \E m \in Motors : TxAddMotorToManager(m)
    \/ \E m \in Motors : TxRemoveFromMotorManager(m)
    \/ \E ready \in [CanBuses -> BOOLEAN], failing \in SendFailures :
           TxEncodeAndSendCanData(ready, failing)

SpecTx == InitTx /\ [][NextTx]_vars

(* DjiMotorTxHandler and its motors' commands: setDesiredOutput, the transmit *)
(* tick and serializeCanSendData called on a frame of the caller.            *)

MOTOR5 == 517

\* Motor m has index 0 or 4 when m is odd and index 2 or 6 when m is even, on
\* either bus; even motors are inverted; desiredOutput(0) as constructed.
CmdMotorConfigs ==
    {f \in [Motors -> [canBus : CanBuses, motorIdentifier : MOTOR1 .. MOTOR8,
                       currentControl : {FALSE}, motorInverted : BOOLEAN,
                       desiredOutput : {0}, lastCommand : {0}]] :
        \A m \in Motors :
            /\ f[m].motorIdentifier \in {MOTOR1 + 2 * ((m - 1) % 2), MOTOR5 + 2 * ((m - 1) % 2)}
            /\ f[m].motorInverted = (m % 2 = 0)}

CmdOutputs == {1000, 500}

\* A frame of the caller: its own identifier, eight non-zero data bytes.
CallerFrame ==
    [identifier |-> MOTOR1 - 1, data |-> <<17, 18, 19, 20, 21, 22, 23, 24>>,
     valid |-> FALSE, motors |-> {}]

InitCmd ==
    /\ txMotors \in CmdMotorConfigs
    /\ can1MotorStore = [i \in 0 .. (DJI_MOTORS_PER_CAN - 1) |-> Null]
    /\ can2MotorStore = [i \in 0 .. (DJI_MOTORS_PER_CAN - 1) |-> Null]
    /\ txHalted = FALSE
    /\ txLast = NoTxCall
    /\ RxIdle /\ DjiIdle /\ FbIdle

CmdSetDesiredOutput(m, v) ==
    /\ ~txHalted
    /\ setDesiredOutput(m, v)
    /\ UNCHANGED <<rxVars, djiVars, fbVars>>

CmdSerializeCanSendData(m) ==
    /\ ~txHalted
    /\ txLast' = [op |-> "serialize", motor |-> m, before |-> CallerFrame,
                  after |-> serializeCanSendData(m, CallerFrame), sent |-> <<>>]
    /\ UNCHANGED <<txMotors, can1MotorStore, can2MotorStore, txHalted>>
    /\ UNCHANGED <<rxVars, djiVars, fbVars>>

CmdEncodeAndSendCanData(ready) ==
    /\ ~txHalted
    /\ encodeAndSendCanData(ready, {})
    /\ UNCHANGED <<rxVars, djiVars, fbVars>>

NextCmd ==
    \/ \E m \in Motors : TxAddMotorToManager(m)
    \/ \E m \in Motors : TxRemoveFromMotorManager(m)
    \/ \E m \in Motors, v \in CmdOutputs : CmdSetDesiredOutput(m, v)
    \/ \E m \in Motors : CmdSerializeCanSendData(m)
    \/ \E ready \in [CanBuses -> BOOLEAN] : CmdEncodeAndSendCanData(ready)

SpecCmd == InitCmd /\ [][NextCmd]_vars

(* The command frame of one motor read back by the motor simulator's       *)
(* CanSerializer.                                                           *)

\* CanSerializer::parseMessage: four int16_t, each from two data bytes.
parseMessageUnsigned(message) ==
    [k \in 0 .. 3 |-> message.data[2 * k + 1] * 256 + message.data[2 * k + 2]]

parseMessage(message) ==
    [k \in 0 .. 3 |-> ToInt16(message.data[2 * k + 1] * 256 + message.data[2 * k + 2])]

\* The int16 desired outputs tried: the corner values and the values around a
\* byte boundary.
ParseOutputs == {SHRT_MIN, -32767, -257, -256, -255, -1, 0, 1, 255, 256, 257, 32766, SHRT_MAX}

\* Motor 1 has any of the eight identifiers and any of the outputs; the other
\* motors are as constructed.
InitParse ==
    /\ \E id \in MOTOR1 .. MOTOR8, out \in ParseOutputs :
         txMotors = [m \in Motors |->
                       [canBus |-> 1, motorIdentifier |-> IF m = 1 THEN id ELSE MOTOR1,
                        currentControl |-> FALSE,
                        desiredOutput |-> IF m = 1 THEN out ELSE 0]]
    /\ can1MotorStore = [i \in 0 .. (DJI_MOTORS_PER_CAN - 1) |-> Null]
    /\ can2MotorStore = [i \in 0 .. (DJI_MOTORS_PER_CAN - 1) |-> Null]
    /\ txHalted = FALSE
    /\ txLast = NoTxCall
    /\ RxIdle /\ DjiIdle /\ FbIdle

\* serializeCanSendData of motor m into a zeroed frame, then parseMessage.
ParseSerialized(m) ==
    /\ txLast.op = "none"
    /\ LET frame == serializeCanSendData(m, EmptyFrame)
       IN  txLast' = [op |-> "parse", motor |-> m, frame |-> frame,
                      out |-> parseMessage(frame)]
    /\ UNCHANGED <<txMotors, can1MotorStore, can2MotorStore, txHalted>>
    /\ UNCHANGED <<rxVars, djiVars, fbVars>>

NextParse == ParseSerialized(1)

SpecParse == InitParse /\ [][NextParse]_vars

(* DoubleDjiMotor: motorOne and motorTwo are the motors 1 and 2. *)

\* The int32 commands tried: the corner values of int32 and int16 and some
\* values of the tests.
DoubleOutputs == OutputInputs \cup {-30000, -1000, 1500, 12434}

\* "/" of two int32_t: the quotient truncated towards zero.
TruncDiv(a, b) == IF a < 0 THEN -((-a) \div b) ELSE a \div b

\* m1Out / m2Out of getOutputDesired: the motor's stored output, negated again
\* on an inverted motor, as an int16_t.
DoubleMotorOutputStored(motor) == motor.desiredOutput

DoubleMotorOutput(motor) ==
    IF motor.motorInverted THEN ToInt16(-motor.desiredOutput) ELSE motor.desiredOutput

InitDouble ==
    /\ \E isInvertedOne \in BOOLEAN, isInvertedTwo \in BOOLEAN :
         txMotors = [m \in Motors |->
                       [canBus |-> 1, motorIdentifier |-> MOTOR1 + ((m - 1) % 8),
                        currentControl |-> FALSE,
                        motorInverted |-> IF m = 1 THEN isInvertedOne
                                          ELSE IF m = 2 THEN isInvertedTwo ELSE FALSE,
                        desiredOutput |-> 0, lastCommand |-> 0]]
    /\ can1MotorStore = [i \in 0 .. (DJI_MOTORS_PER_CAN - 1) |-> Null]
    /\ can2MotorStore = [i \in 0 .. (DJI_MOTORS_PER_CAN - 1) |-> Null]
    /\ txHalted = FALSE
    /\ txLast = NoTxCall
    /\ RxIdle /\ DjiIdle /\ FbIdle

DoubleSetDesiredOutput(v) ==
    /\ txMotors' = [m \in Motors |->
                      IF m \in {1, 2} THEN StoreCommand(txMotors[m], v) ELSE txMotors[m]]
    /\ txLast' = [op |-> "doubleSet", arg |-> v, result |-> 0]
    /\ UNCHANGED <<can1MotorStore, can2MotorStore, txHalted>>
    /\ UNCHANGED <<rxVars, djiVars, fbVars>>

\* arg: the argument of the last setDesiredOutput.
DoubleGetOutputDesired ==
    /\ txLast.op \in {"doubleSet", "doubleGet"}
    /\ LET m1Out == DoubleMotorOutput(txMotors[1])
           m2Out == DoubleMotorOutput(txMotors[2])
       IN  txLast' = [op |-> "doubleGet", arg |-> txLast.arg,
                      result |-> ToInt16(TruncDiv(m1Out + m2Out, 2))]
    /\ UNCHANGED <<txMotors, can1MotorStore, can2MotorStore, txHalted>>
    /\ UNCHANGED <<rxVars, djiVars, fbVars>>

NextDouble ==
    \/ \E v \in DoubleOutputs : DoubleSetDesiredOutput(v)
    \/ DoubleGetOutputDesired

SpecDouble == InitDouble /\ [][NextDouble]_vars

(* RefSerial: referee messages arrive while time passes.  The robot's HP is *)
(* first reported as RefMaxHp and then only drops, by one of RefDamages per *)
(* status message, until the robot is dead.                                 *)

RefClockStep == 600
RefMaxClock == 1800
RefMaxHp == DPS_TRACKER_DEQUE_SIZE + 2
RefDamages == {0, 1}

RefHpInputs ==
    IF refSerial.previousHp = 0 /\ refSerial.receivedDps = 0
    THEN {RefMaxHp}
    ELSE {hp \in {refSerial.previousHp - d : d \in RefDamages} : hp >= 0}

RefUnchanged ==
    UNCHANGED <<motorInverted, motorVars, encVars, lastCall, lastFeedbackTime, motorLife,
                unjamVars, rxVars, fbVars, txVars>>

InitRef ==
    /\ RxIdle /\ MotorIdle /\ UnjamIdle /\ FbIdle /\ TxIdle
    /\ refSerial = RefSerialConstructor

RefMessageReceived(type, length, currentHp) ==
    /\ messageReceiveCallback(type, length, currentHp)
    /\ UNCHANGED clock
    /\ RefUnchanged

RefTimePasses ==
    /\ clock + RefClockStep <= RefMaxClock
    /\ clock' = clock + RefClockStep
    /\ refSerial' = [refSerial EXCEPT !.last = "time"]
    /\ RefUnchanged

NextRef ==
    \/ \E type \in RefMessageTypes, length \in RefMessageLengths, currentHp \in RefHpInputs :
           RefMessageReceived(type, length, currentHp)
    \/ RefTimePasses

SpecRef == InitRef /\ [][NextRef]_vars

(* UnjamIntegralCommand: the scheduler initializes the command when it is   *)
(* ready, calls execute() until isFinished() holds and end() once it does;   *)
(* meanwhile the subsystem moves, goes offline and comes back, and time      *)
(* passes until the running timeout expires.                                 *)

MaxCycleCount == 2
UnjamPositions == {-2, -1, 0, 1}

UnjamConfigs ==
    {config \in {UnjamConfig(n) : n \in 1..MaxCycleCount} : UnjamConfigAsserts(config)}

UnjamUnchanged ==
    UNCHANGED <<motorInverted, motorVars, encVars, lastCall, lastFeedbackTime, motorLife,
                refVars, rxVars, fbVars, txVars>>

UnjamNow == [cmd |-> unjamCommand, sub |-> setpointSubsystem]

InitUnjam ==
    /\ RxIdle /\ MotorIdle /\ RefIdle /\ FbIdle /\ TxIdle
    /\ \E config \in UnjamConfigs, state \in UnjamStates :
           unjamCommand = UnjamIntegralCommandConstructor(config, state)
    /\ \E p \in UnjamPositions : setpointSubsystem = [SubsystemIdle EXCEPT !.integral = p]

UnjamSchedulerInitialize ==
    /\ unjamCommand.scheduled # "running"
    /\ UnjamIsReady
    /\ LET u == UnjamInitialize(UnjamNow)
       IN  /\ unjamCommand' = [u.cmd EXCEPT !.scheduled = "running",
                                            !.last.op = "initialize"]
           /\ setpointSubsystem' = u.sub
    /\ UNCHANGED clock
    /\ UnjamUnchanged

UnjamSchedulerExecute ==
    /\ unjamCommand.scheduled = "running"
    /\ ~UnjamIsFinished
    /\ LET u == UnjamExecute(UnjamNow)
       IN  /\ unjamCommand' = [u.cmd EXCEPT !.last.op = "execute"]
           /\ setpointSubsystem' = u.sub
    /\ UNCHANGED clock
    /\ UnjamUnchanged

UnjamSchedulerEnd ==
    /\ unjamCommand.scheduled = "running"
    /\ UnjamIsFinished
    /\ LET u == UnjamEnd(UnjamNow)
       IN  /\ unjamCommand' =
                  [u.cmd EXCEPT !.scheduled = "ended",
                                !.last = [op |-> "end",
                                          clearJam |-> u.calls[1] = "clearJam",
                                          online |-> setpointSubsystem.online]]
           /\ setpointSubsystem' = u.sub
    /\ UNCHANGED clock
    /\ UnjamUnchanged

\* Time passes until the running timeout has expired.  Time is measured from
\* the present: the expire time comes down to the clock, which stays.
UnjamTimePasses ==
    /\ unjamCommand.scheduled = "running"
    /\ ~UnjamIsFinished
    /\ unjamCommand.unjamRotateTimeout.isRunning
    /\ clock < unjamCommand.unjamRotateTimeout.expireTime
    /\ unjamCommand' = [unjamCommand EXCEPT !.unjamRotateTimeout.expireTime = clock,
                                            !.last.op = "time"]
    /\ UNCHANGED <<setpointSubsystem, clock>>
    /\ UnjamUnchanged

UnjamSubsystemMoves(p) ==
    /\ p # setpointSubsystem.integral
    /\ setpointSubsystem' = [setpointSubsystem EXCEPT !.integral = p]
    /\ UNCHANGED <<unjamCommand, clock>>
    /\ UnjamUnchanged

UnjamSubsystemSetOnline(b) ==
    /\ b # setpointSubsystem.online
    /\ setpointSubsystem' = [setpointSubsystem EXCEPT !.online = b]
    /\ UNCHANGED <<unjamCommand, clock>>
    /\ UnjamUnchanged

NextUnjam ==
    \/ UnjamSchedulerInitialize
    \/ UnjamSchedulerExecute
    \/ UnjamSchedulerEnd
    \/ UnjamTimePasses
    \/ \E p \in UnjamPositions : UnjamSubsystemMoves(p)
    \/ \E b \in BOOLEAN : UnjamSubsystemSetOnline(b)

SpecUnjam == InitUnjam /\ [][NextUnjam]_vars

\* execute() keeps being called and every phase's timeout eventually expires.
SpecUnjamLive ==
    SpecUnjam /\ WF_vars(UnjamSchedulerExecute) /\ WF_vars(UnjamTimePasses)

(* CanRxHandler: attaching and removing listeners. *)

InitRx ==
    /\ CanRxHandlerInit
    /\ DjiIdle /\ FbIdle /\ TxIdle

RxAttachReceiveHandler(l) ==
    /\ ~rxHalted
    /\ attachReceiveHandler(l)
    /\ UNCHANGED <<canRxBuffer, djiVars, fbVars, txVars>>

RxRemoveReceiveHandler(l) ==
    /\ ~rxHalted
    /\ removeReceiveHandler(l)
    /\ UNCHANGED <<canRxBuffer, djiVars, fbVars, txVars>>

NextRx ==
    \/ \E l \in Listeners : RxAttachReceiveHandler(l)
    \/ \E l \in Listeners : RxRemoveReceiveHandler(l)

SpecRx == InitRx /\ [][NextRx]_vars

(* CanRxHandler: polling the drivers, with listeners of distinct identifiers. *)

\* Listener l listens for the identifier of index l - 1, on either bus.
PollListenerConfigs ==
    {f \in [Listeners -> [canBus : CanBuses,
                          canIdentifier : MOTOR1 .. (MOTOR1 + NumListeners - 1)]] :
        \A l \in Listeners : f[l].canIdentifier = MOTOR1 + l - 1}

InitPoll ==
    /\ rxListeners \in PollListenerConfigs
    /\ messageHandlerStoreCan1 = [i \in RxIndices |-> Null]
    /\ messageHandlerStoreCan2 = [i \in RxIndices |-> Null]
    /\ rxHalted = FALSE
    /\ rxOob = FALSE
    /\ rxLast = NoRxCall
    /\ canRxBuffer = [b \in CanBuses |-> <<>>]
    /\ DjiIdle /\ FbIdle /\ TxIdle

PollCanData ==
    /\ ~rxHalted
    /\ pollCanData
    /\ UNCHANGED <<djiVars, fbVars, txVars>>

PollCanReceive(bus, message) ==
    /\ ~rxHalted
    /\ CanReceive(bus, message)
    /\ UNCHANGED <<djiVars, fbVars, txVars>>

NextPoll ==
    \/ \E l \in Listeners : RxAttachReceiveHandler(l)
    \/ \E l \in Listeners : RxRemoveReceiveHandler(l)
    \/ \E b \in CanBuses, message \in RxMessages : PollCanReceive(b, message)
    \/ PollCanData

SpecPoll == InitPoll /\ [][NextPoll]_vars

(* DjiMotor objects from initialize() to destruction, with both handlers. *)

\* The identifiers the motors of this specification are built with: motors on
\* one bus compete for one slot.
LifeIdentifiers == {MOTOR1}

\* Motor m is the CanRxListener m: the DjiMotor constructor hands its bus and
\* identifier to its CanRxListener base.
LifeMotorConfigs ==
    [Motors -> [canBus : CanBuses, motorIdentifier : LifeIdentifiers,
                currentControl : {FALSE}, desiredOutput : {0}]]

InitLife ==
    /\ txMotors \in LifeMotorConfigs
    /\ rxListeners = [l \in Listeners |->
                        IF l \in Motors
                        THEN [canBus |-> txMotors[l].canBus,
                              canIdentifier |-> txMotors[l].motorIdentifier]
                        ELSE [canBus |-> 1, canIdentifier |-> MOTOR8]]
    /\ can1MotorStore = [i \in 0 .. (DJI_MOTORS_PER_CAN - 1) |-> Null]
    /\ can2MotorStore = [i \in 0 .. (DJI_MOTORS_PER_CAN - 1) |-> Null]
    /\ txHalted = FALSE
    /\ txLast = NoTxCall
    /\ messageHandlerStoreCan1 = [i \in RxIndices |-> Null]
    /\ messageHandlerStoreCan2 = [i \in RxIndices |-> Null]
    /\ rxHalted = FALSE
    /\ rxOob = FALSE
    /\ rxLast = NoRxCall
    /\ canRxBuffer = [b \in CanBuses |-> <<>>]
    /\ DjiIdle /\ FbIdle

LifeUnchanged ==
    UNCHANGED <<motorInverted, motorVars, encVars, clock, lastCall, lastFeedbackTime, fbVars,
                refVars, unjamVars>>

\* CanRxListener::attachSelfToRxHandler
attachSelfToRxHandler(m) == attachReceiveHandler(m)

\* CanRxListener::~CanRxListener
CanRxListenerDestructor(m) == removeReceiveHandler(m)

\* DjiMotor::~DjiMotor
DjiMotorDestructorKeepsRegistry(m) ==
    /\ txLast' = [op |-> "remove", motor |-> m, error |-> FALSE]
    /\ UNCHANGED <<txMotors, can1MotorStore, can2MotorStore, txHalted>>

DjiMotorDestructor(m) == removeFromMotorManager(m)

\* DjiMotor::initialize; a failed assertion of addMotorToManager ends the
\* process before the motor attaches itself.
DjiMotorInitialize(m) ==
    /\ addMotorToManager(m)
    /\ IF txHalted'
       THEN UNCHANGED <<rxListeners, messageHandlerStoreCan1, messageHandlerStoreCan2,
                        rxHalted, rxOob, rxLast>>
       ELSE attachSelfToRxHandler(m)
    /\ motorLife' = IF txHalted' \/ rxHalted' THEN motorLife
                    ELSE [motorLife EXCEPT ![m] = "initialized"]

LifeRunning == ~txHalted /\ ~rxHalted

LifeInitialize(m) ==
    /\ LifeRunning
    /\ m \in Listeners
    /\ motorLife[m] = "constructed"
    /\ DjiMotorInitialize(m)
    /\ UNCHANGED canRxBuffer
    /\ LifeUnchanged

\* The destructor body, then the destructor of the CanRxListener base.
LifeDestroy(m) ==
    /\ LifeRunning
    /\ m \in Listeners
    /\ motorLife[m] # "destroyed"
    /\ DjiMotorDestructor(m)
    /\ CanRxListenerDestructor(m)
    /\ motorLife' = [motorLife EXCEPT ![m] = "destroyed"]
    /\ UNCHANGED canRxBuffer
    /\ LifeUnchanged

LifeCanReceive(bus, message) ==
    /\ LifeRunning
    /\ CanReceive(bus, message)
    /\ UNCHANGED <<txVars, motorLife>>
    /\ LifeUnchanged

LifePollCanData ==
    /\ LifeRunning
    /\ pollCanData
    /\ UNCHANGED <<txVars, motorLife>>
    /\ LifeUnchanged

LifeEncodeAndSendCanData ==
    /\ LifeRunning
    /\ encodeAndSendCanData([b \in CanBuses |-> TRUE], {})
    /\ UNCHANGED <<rxVars, motorLife>>
    /\ LifeUnchanged

NextLife ==
    \/ \E m \in Motors : LifeInitialize(m)
    \/ \E m \in Motors : LifeDestroy(m)
    \/ \E b \in CanBuses, id \in LifeIdentifiers : LifeCanReceive(b, RxMessage(id, 0))
    \/ LifePollCanData
    \/ LifeEncodeAndSendCanData

SpecLife == InitLife /\ [][NextLife]_vars

----------------------------------------------------------------------------
(* Claims about CanRxHandler, under SpecRx. *)

RxIndexOf(l) == rxListeners[l].canIdentifier - MOTOR1

\* C1: attachReceiveHandler for a listener whose (bus, index) slot is occupied,
\* with the index in [0, 8), halts the process and leaves both dispatch tables
\* as they were; and a slot's occupant only ever changes from empty to a
\* listener or from a listener to empty.
C1_AttachOccupiedIsFatal ==
    [][/\ (/\ rxLast'.op = "attach"
           /\ RxIndexOf(rxLast'.listener) \in RxIndices
           /\ RxStoreOf(rxListeners[rxLast'.listener].canBus)
                  [RxIndexOf(rxLast'.listener)] # Null)
          => (/\ rxHalted'
              /\ UNCHANGED <<messageHandlerStoreCan1, messageHandlerStoreCan2>>)
       /\ \A i \in RxIndices :
            /\ messageHandlerStoreCan1'[i] # messageHandlerStoreCan1[i]
                 => (messageHandlerStoreCan1[i] = Null \/ messageHandlerStoreCan1'[i] = Null)
            /\ messageHandlerStoreCan2'[i] # messageHandlerStoreCan2[i]
                 => (messageHandlerStoreCan2[i] = Null \/ messageHandlerStoreCan2'[i] = Null)
      ]_vars

\* C33: attachReceiveHandler for a listener whose index is outside [0, 8) stores
\* nothing outside the dispatch array, and either halts or leaves every slot of
\* both tables as it was.
C33_AttachOutOfRangeWritesNothing ==
    [][(rxLast'.op = "attach" /\ RxIndexOf(rxLast'.listener) \notin RxIndices) =>
           /\ rxOob' = rxOob
           /\ UNCHANGED <<messageHandlerStoreCan1, messageHandlerStoreCan2>>
      ]_vars

----------------------------------------------------------------------------
(* Claims about CanRxHandler::pollCanData, under SpecPoll. *)

\* The processMessage calls of a poll that came from one bus, in order.
CallsOfBus(calls, b) == SelectSeq(calls, LAMBDA c : c.bus = b)

\* C11: when listener L is attached with an index in [0, 8) and the driver of L's
\* bus delivers, in a poll, a message whose identifier equals L's, the poll calls
\* L.processMessage exactly once with that message and calls no other listener
\* for it.
C11_MatchingMessageDispatchedOnce ==
    [][rxLast'.op = "poll" =>
         \A b \in CanBuses, l \in Listeners :
             (/\ canRxBuffer[b] # <<>>
              /\ rxListeners[l].canBus = b
              /\ RxIndexOf(l) \in RxIndices
              /\ RxStoreOf(b)[RxIndexOf(l)] = l
              /\ Head(canRxBuffer[b]).identifier = rxListeners[l].canIdentifier)
             => CallsOfBus(rxLast'.calls, b) =
                    <<[bus |-> b, listener |-> l, message |-> Head(canRxBuffer[b])]>>
      ]_vars

\* One poll dispatched a message to each of two listeners, one per bus.
C11_Witness ==
    /\ rxLast.op = "poll"
    /\ Len(rxLast.calls) = 2
    /\ rxLast.calls[1].listener # rxLast.calls[2].listener

C13_OneMessagePerBusInOrder ==
    [][rxLast'.op = "poll" =>
         LET one(b) == IF canRxBuffer[b] = <<>> THEN <<>>
                       ELSE <<[bus |-> b, message |-> Head(canRxBuffer[b])]>>
         IN  /\ rxLast'.fetched = one(1) \o one(2)
             /\ \A b \in CanBuses :
                  canRxBuffer'[b] = IF canRxBuffer[b] = <<>> THEN <<>>
                                    ELSE Tail(canRxBuffer[b])
             /\ \A i, j \in 1 .. Len(rxLast'.calls) :
                  i < j => rxLast'.calls[i].bus < rxLast'.calls[j].bus
      ]_vars

\* A poll took the first of two messages of one bus and left the second.
C13_Witness ==
    /\ rxLast.op = "poll"
    /\ \E b \in CanBuses :
         /\ rxLast.fetched = <<[bus |-> b, message |-> RxMessage(MOTOR1, 1)]>>
         /\ canRxBuffer[b] = <<RxMessage(MOTOR1, 0)>>

----------------------------------------------------------------------------
(* Claims about the disconnect timeouts, under SpecOnline. *)

\* C14: once a matching feedback frame has come, at time t for the last one,
\* isMotorOnline() is true exactly while less than 100 ms have passed since t:
\* true until the timeout expires, false from then on, and true again at once
\* after the next matching frame, which restarts the whole timeout.
C14_OnlineWithinDisconnectTime ==
    lastFeedbackTime >= 0 =>
        (DjiMotorIsMotorOnline <=> clock < lastFeedbackTime + 100)

\* A frame came more than 100 ms after the start, and 100 ms later the motor is
\* offline again.
C14_Witness ==
    /\ lastFeedbackTime > 100
    /\ clock = lastFeedbackTime + 100
    /\ ~DjiMotorIsMotorOnline

\* C34: DjiMotor::processMessage with a message of another identifier changes
\* nothing: shaft RPM, torque, temperature, the motor's disconnect timeout and
\* the internal encoder (wrapped, unwrapped, revolutions, home offset, its RPM
\* and its timeout) stay as they were.
C34_ForeignMessageIgnored ==
    [][(lastCall'.op = "processMessage" /\ lastCall'.arg # MotorIdentifier) =>
           UNCHANGED <<desiredOutput, shaftRPM, torque, temperature, motorDisconnectTimeout,
                       encoderWrapped, encoderUnwrapped, encoderRevolutions,
                       encoderHomePosition, encShaftRPM, encoderDisconnectTimeout>>
      ]_vars

\* A message of another identifier came some time after the motor's own
\* feedback, whose timeouts it would have restarted.
C34_Witness ==
    /\ lastCall.op = "processMessage"
    /\ lastCall.arg = MOTOR2
    /\ lastFeedbackTime >= 0
    /\ clock > lastFeedbackTime
    /\ motorDisconnectTimeout.expireTime = lastFeedbackTime + MOTOR_DISCONNECT_TIME
    /\ encoderDisconnectTimeout.expireTime = lastFeedbackTime + MOTOR_DISCONNECT_TIME

\* C15: until the first matching feedback frame is processed, the motor and its
\* internal encoder both report offline, however much time passes.
C15_OfflineBeforeFirstMessage ==
    lastFeedbackTime < 0 => (~DjiMotorIsMotorOnline /\ ~DjiMotorEncoderIsOnline)

\* More than two disconnect times have passed and only a frame of another motor
\* has been processed.
C15_Witness ==
    /\ lastFeedbackTime < 0
    /\ clock > 2 * MOTOR_DISCONNECT_TIME
    /\ lastCall.op = "processMessage"
    /\ ~DjiMotorIsMotorOnline

----------------------------------------------------------------------------
(* Claims about DjiMotorEncoder, under SpecEnc. *)

\* C2: after any sequence of processMessage and resetEncoderValue calls, with
\* either inversion flag, the wrapped value lies in [0, 8192) and the unwrapped
\* position is congruent to it modulo 8192.
C2_WrappedInRangeAndCongruent ==
    /\ encoderWrapped \in 0 .. (ENC_RESOLUTION - 1)
    /\ encoderUnwrapped % ENC_RESOLUTION = encoderWrapped

\* An inverted encoder that was re-homed and has since turned backwards past zero.
C2_Witness ==
    /\ lastCall.op = "processMessage"
    /\ motorInverted
    /\ encoderHomePosition # 0
    /\ encoderUnwrapped < 0

\* C3: one unwrap step from wrapped value old to new, d = new - old, changes the
\* unwrapped position by 8192 + d if d < -4096, by d - 8192 if d > 4096 and by d
\* otherwise; the change has magnitude at most 4096 and equals the displacement
\* modulo 8192 whenever that displacement is under 4096 counts.
C3_UnwrapStepDelta ==
    [][lastCall'.op = "processMessage" =>
         LET d == encoderWrapped' - encoderWrapped
             delta == encoderUnwrapped' - encoderUnwrapped
             displacement == ((d + 4096) % 8192) - 4096
         IN  /\ delta = (IF d < -4096 THEN 8192 + d ELSE IF d > 4096 THEN d - 8192 ELSE d)
             /\ Abs(delta) <= 4096
             /\ Abs(displacement) < 4096 => delta = displacement
      ]_vars

\* C16: resetEncoderValue() followed by a feedback frame carrying the raw encoder
\* field of the last frame received before the reset gives wrapped = 0,
\* unwrapped = 0 and revolutions = 0, for either inversion flag, any home
\* position and any accumulated position.
C16_ResetThenSameReadingIsZero ==
    [][(/\ lastCall.op = "resetEncoderValue"
        /\ lastCall.arg >= 0
        /\ lastCall'.op = "processMessage"
        /\ lastCall'.arg = lastCall.arg)
       => (encoderWrapped' = 0 /\ encoderUnwrapped' = 0 /\ encoderRevolutions' = 0)
      ]_vars

\* An inverted encoder was reset and has read again the raw field it had read
\* last before the reset; its home position is that reading.
C16_Witness ==
    /\ lastCall.op = "processMessage"
    /\ lastCall.resetOf = lastCall.arg
    /\ motorInverted
    /\ encoderHomePosition = ENC_RESOLUTION - 1 - lastCall.arg
    /\ encoderHomePosition # 0
    /\ encoderWrapped = 0

\* C17: after every sample the revolution count satisfies
\* unwrapped = revolutions * 8192 + wrapped, so that it goes up by one on a
\* forward crossing of the zero boundary (8000 to 50: unwrapped advances by 242)
\* and down by one on a backward crossing.
C17_RevolutionCountTracksUnwrapped ==
    lastCall.op = "processMessage" =>
        encoderUnwrapped = encoderRevolutions * ENC_RESOLUTION + encoderWrapped

\* A frame has just taken the position forward across the zero boundary.
C3_Witness ==
    /\ lastCall.op = "processMessage"
    /\ encoderUnwrapped >= ENC_RESOLUTION
    /\ encoderWrapped < 4096

----------------------------------------------------------------------------
(* Claims about FallbackEncoder, under SpecFb. *)

\* C4: as long as only slots going online or offline and reads have happened,
\* isOnline() returns true iff the primary is online or a secondary that was
\* online during a synchronization pass in which the primary was online is
\* online now.
C4_IsOnlineIffPrimaryOrAligned ==
    (fbHist.last = "isOnline" /\ ~fbHist.resetCalled) =>
        (fbOnlineResult <=> (encOnline[0] \/ \E i \in fbHist.aligned : encOnline[i]))

\* The primary has dropped and an aligned secondary keeps the fused encoder online.
C4_Witness ==
    /\ fbHist.last = "isOnline"
    /\ ~fbHist.resetCalled
    /\ ~encOnline[0]
    /\ fbOnlineResult

\* C5: a secondary is marked seen only by a synchronization pass in which the
\* primary was online, and a secondary that never was online during such a pass
\* neither makes isOnline() true nor is among the slots a read or reset uses.
C5_SecondaryAlignedOnlyWithPrimary ==
    /\ (seenEncoders \cap Secondaries) \subseteq fbHist.aligned
    /\ (fbHist.slots \cap Secondaries) \subseteq fbHist.aligned
    /\ (fbHist.last = "isOnline" /\ fbOnlineResult) =>
           (encOnline[0] \/ \E i \in fbHist.aligned : encOnline[i])

\* A secondary came online while the primary was offline, and isOnline() said no.
C5_Witness ==
    /\ fbHist.last = "isOnline"
    /\ ~encOnline[0]
    /\ \E i \in Secondaries : encOnline[i] /\ i \notin fbHist.aligned
    /\ ~fbOnlineResult

----------------------------------------------------------------------------
(* Claims about DjiMotorTxHandler, under SpecTx. *)

TxIndexOf(m) == txMotors[m].motorIdentifier - MOTOR1

TxIndices == 0 .. (DJI_MOTORS_PER_CAN - 1)

\* C6: addMotorToManager halts when the motor's (bus, index) slot is occupied or
\* the index is outside [0, 8); otherwise it stores the motor in exactly that
\* slot, changes no other slot of either bus and sends nothing.
C6_AddMotorToManager ==
    [][txLast'.op = "add" =>
         LET m == txLast'.motor
             bus == txMotors[m].canBus
             idx == TxIndexOf(m)
         IN  IF idx \notin TxIndices \/ MotorStoreOf(bus)[idx] # Null
             THEN /\ txHalted'
                  /\ UNCHANGED <<can1MotorStore, can2MotorStore>>
             ELSE /\ ~txHalted'
                  /\ txLast'.sent = <<>>
                  /\ IF bus = 1
                     THEN /\ can1MotorStore' = [can1MotorStore EXCEPT ![idx] = m]
                          /\ UNCHANGED can2MotorStore
                     ELSE /\ can2MotorStore' = [can2MotorStore EXCEPT ![idx] = m]
                          /\ UNCHANGED can1MotorStore
      ]_vars

\* The same index is registered on both buses.
C6_Witness ==
    /\ txLast.op = "add"
    /\ ~txHalted
    /\ \E i \in TxIndices : can1MotorStore[i] # Null /\ can2MotorStore[i] # Null

\* The frame of its bus a registered motor belongs in.
ExpectedFrameKind(m) ==
    IF TxIndexOf(m) \in 0 .. 3 THEN "low"
    ELSE IF txMotors[m].currentControl THEN "6020current"
    ELSE "high"

\* C7: in a tick, every registered motor is serialized into exactly the frame of
\* its own bus that its index and control mode select, and a frame is valid iff
\* a registered motor was serialized into it.
C7_FrameSelection ==
    txLast.op = "tick" =>
        \A b \in CanBuses, k \in FrameKinds :
            /\ txLast.frames[b][k].motors =
                 {m \in Motors : /\ \E i \in TxIndices : MotorStoreOf(b)[i] = m
                                 /\ ExpectedFrameKind(m) = k}
            /\ txLast.frames[b][k].valid <=> txLast.frames[b][k].motors # {}

\* A tick with a current-control frame on one bus and a low frame on the other.
C7_Witness ==
    /\ txLast.op = "tick"
    /\ \E b \in CanBuses :
         /\ txLast.frames[b]["6020current"].valid
         /\ ~txLast.frames[b]["high"].valid
         /\ txLast.frames[3 - b]["low"].valid

\* The frame kinds a tick sent on a bus.
SentKinds(b) == {txLast.sent[n].kind : n \in {x \in 1 .. Len(txLast.sent) : txLast.sent[x].bus = b}}

\* C8: a tick sends on a bus exactly its valid frames, each once, when the bus
\* was ready, and nothing at all when it was not, whatever the other bus did.
C8_SendOnlyReadyAndValid ==
    txLast.op = "tick" =>
        /\ \A b \in CanBuses :
             SentKinds(b) = IF txLast.ready[b]
                            THEN {k \in FrameKinds : txLast.frames[b][k].valid}
                            ELSE {}
        /\ Len(txLast.sent) = Cardinality(SentKinds(1)) + Cardinality(SentKinds(2))

\* Both buses had valid frames; one was not ready and only the other's were sent.
C8_Witness ==
    /\ txLast.op = "tick"
    /\ \E b \in CanBuses :
         /\ ~txLast.ready[b]
         /\ \E k \in FrameKinds : txLast.frames[b][k].valid
         /\ SentKinds(b) = {}
         /\ SentKinds(3 - b) # {}

----------------------------------------------------------------------------
(* Claims about DjiMotor, under SpecMotor. *)

Signed16(hi, lo) ==
    IF hi * 256 + lo >= 32768 THEN hi * 256 + lo - 65536 ELSE hi * 256 + lo

Signed8(byte) == IF byte >= 128 THEN byte - 256 ELSE byte

Sign(x) == IF x < 0 THEN -1 ELSE IF x > 0 THEN 1 ELSE 0

\* C9: setDesiredOutput(v) stores clamp(v, -32768, 32767), arithmetically negated
\* on an inverted motor, so that on an inverted motor the stored value never has
\* the sign of a non-zero v.
C9_ClampThenNegate ==
    lastCall.op = "setDesiredOutput" =>
        LET clamped == limitVal(lastCall.arg, -32768, 32767)
        IN  /\ desiredOutput = IF motorInverted THEN -clamped ELSE clamped
            /\ (motorInverted /\ lastCall.arg # 0) => Sign(desiredOutput) # Sign(lastCall.arg)

\* C10: after a matching feedback frame, shaft RPM and torque are the signed
\* 16-bit big-endian values of bytes 2-3 and 4-5, arithmetically negated on an
\* inverted motor, and temperature is the signed value of byte 6.
C10_FeedbackDecoding ==
    (lastCall.op = "processMessage" /\ lastCall.arg.identifier = MotorIdentifier) =>
        LET data == lastCall.arg.data
            rpm == Signed16(data[3], data[4])
            trq == Signed16(data[5], data[6])
        IN  /\ shaftRPM = IF motorInverted THEN -rpm ELSE rpm
            /\ torque = IF motorInverted THEN -trq ELSE trq
            /\ temperature = Signed8(data[7])

\* C23: removeReceiveHandler of a listener with an index in [0, 8) empties the
\* listener's (bus, index) slot and no other, and is a no-op that neither halts
\* nor raises anything when the slot is already empty; a poll calls only the
\* listener that is in the slot of the message, so none once the slot is empty.
C23_RemoveReceiveHandler ==
    [][/\ rxLast'.op = "remove" =>
            LET l == rxLast'.listener
                bus == rxListeners[l].canBus
                idx == RxIndexOf(l)
            IN  /\ ~rxHalted' /\ ~rxOob'
                /\ IF RxStoreOf(bus)[idx] = Null
                   THEN UNCHANGED <<messageHandlerStoreCan1, messageHandlerStoreCan2>>
                   ELSE IF bus = 1
                        THEN /\ messageHandlerStoreCan1' =
                                    [messageHandlerStoreCan1 EXCEPT ![idx] = Null]
                             /\ UNCHANGED messageHandlerStoreCan2
                        ELSE /\ messageHandlerStoreCan2' =
                                    [messageHandlerStoreCan2 EXCEPT ![idx] = Null]
                             /\ UNCHANGED messageHandlerStoreCan1
       /\ rxLast'.op = "poll" =>
            \A n \in 1 .. Len(rxLast'.calls) :
                LET c == rxLast'.calls[n]
                    idx == c.message.identifier - MOTOR1
                IN  idx \in RxIndices /\ RxStoreOf(c.bus)[idx] = c.listener
      ]_vars

\* A listener was removed from its slot while a message with its identifier
\* waits in the driver of its bus.
C23_Witness ==
    /\ rxLast.op = "remove"
    /\ rxLast.occupied
    /\ LET l == rxLast.listener
           bus == rxListeners[l].canBus
       IN  /\ RxStoreOf(bus)[RxIndexOf(l)] = Null
           /\ canRxBuffer[bus] # <<>>
           /\ Head(canRxBuffer[bus]).identifier = rxListeners[l].canIdentifier

----------------------------------------------------------------------------
(* Claims about the lifetime of a DjiMotor, under SpecLife. *)

\* The motors the dispatch tables and the Tx registry hold.
RxReferenced == {RxStoreOf(b)[i] : b \in CanBuses, i \in RxIndices} \ {Null}

TxReferenced == {MotorStoreOf(b)[i] : b \in CanBuses, i \in TxIndices} \ {Null}

\* C24: initialize() puts the motor in the Tx registry and in the Rx dispatch
\* table at its (bus, index); once a motor is destroyed neither table holds it,
\* no poll dispatches a message to it and no tick serializes it.
C24_DestroyedMotorUnreferenced ==
    [][/\ \A m \in Motors :
            (motorLife[m] = "constructed" /\ motorLife'[m] = "initialized")
            => /\ MotorStoreOf(txMotors[m].canBus)'[TxIndexOf(m)] = m
               /\ RxStoreOf(txMotors[m].canBus)'[TxIndexOf(m)] = m
       /\ \A m \in Motors :
            motorLife'[m] = "destroyed"
            => /\ m \notin RxReferenced' /\ m \notin TxReferenced'
               /\ rxLast'.op = "poll"
                  => \A n \in 1 .. Len(rxLast'.calls) : rxLast'.calls[n].listener # m
               /\ txLast'.op = "tick"
                  => \A b \in CanBuses, k \in FrameKinds :
                         m \notin txLast'.frames[b][k].motors
      ]_vars

\* A motor that was in its slot of the Tx registry, which no other motor is
\* built for, was destroyed, and afterwards a poll fetched a message with its
\* identifier from its bus and called nobody.
C24_Witness ==
    /\ rxLast.op = "poll"
    /\ rxLast.calls = <<>>
    /\ txLast.op = "remove" /\ ~txLast.error
    /\ motorLife[txLast.motor] = "destroyed"
    /\ \A m \in Motors \ {txLast.motor} : txMotors[m] # txMotors[txLast.motor]
    /\ \E n \in 1 .. Len(rxLast.fetched) :
         /\ rxLast.fetched[n].bus = txMotors[txLast.motor].canBus
         /\ rxLast.fetched[n].message.identifier = txMotors[txLast.motor].motorIdentifier

----------------------------------------------------------------------------
(* Claims about re-homing of DjiMotorEncoder over time, under SpecHome. *)

\* C31: only resetEncoderValue changes the home offset.  Time passing, also past
\* the disconnect timeout, changes neither position nor home offset; and a
\* feedback frame, also the first one after an offline period, leaves the home
\* offset alone, sets the wrapped position to the reading relative to the home
\* offset and moves the unwrapped position by the circular difference of the
\* wrapped positions, never back to zero or to the reading.
C31_HomeChangesOnlyInReset ==
    [][/\ encoderHomePosition' # encoderHomePosition => lastCall'.op = "resetEncoderValue"
       /\ clock' # clock =>
            UNCHANGED <<encoderWrapped, encoderUnwrapped, encoderHomePosition>>
       /\ lastCall'.op = "processMessage" =>
            LET actual == IF motorInverted THEN ENC_RESOLUTION - 1 - lastCall'.arg
                          ELSE lastCall'.arg
                moved == encoderUnwrapped' - encoderUnwrapped
            IN  /\ encoderHomePosition' = encoderHomePosition
                /\ encoderWrapped' = (actual - encoderHomePosition) % ENC_RESOLUTION
                /\ (moved - (encoderWrapped' - encoderWrapped)) % ENC_RESOLUTION = 0
                /\ Abs(moved) <= ENC_RESOLUTION \div 2
      ]_vars

\* Feedback resumed after an offline period on an encoder that had been
\* re-homed and had moved since: position and home offset are not zero.
C31_Witness ==
    /\ lastCall.op = "processMessage"
    /\ lastCall.resumed
    /\ encoderHomePosition # 0
    /\ encoderWrapped # 0
    /\ encoderUnwrapped # encoderWrapped

----------------------------------------------------------------------------
(* Claims about the fused encoder of a DjiMotor, under SpecFused. *)

\* C35: for a motor built without an external encoder, what
\* getEncoder()->isOnline() returns is what isMotorOnline() returns at that
\* moment.
C35_FusedOnlineIsMotorOnline ==
    (lastCall.op = "isOnline" /\ ~HasExternal) =>
        (fbOnlineResult <=> DjiMotorIsMotorOnline)

\* The fused encoder of a motor without external encoder read offline after
\* the motor's feedback had stopped for the disconnect time.
C35_Witness ==
    /\ lastCall.op = "isOnline"
    /\ ~HasExternal
    /\ ~fbOnlineResult
    /\ lastFeedbackTime >= 0
    /\ 0 \in seenEncoders

----------------------------------------------------------------------------
(* Claims about the construction of FallbackEncoder, under SpecCtor. *)

\* C25: constructing a FallbackEncoder whose slot 0 is null halts the process,
\* whatever the other slots hold, and the construction succeeds, with no slot
\* marked aligned, whenever slot 0 is non-null.
C25_NullPrimaryIsFatal ==
    [][(fbHist.last = "unconstructed" /\ fbHist'.last # "unconstructed") =>
           IF encoders[0]
           THEN fbHist'.last = "none" /\ seenEncoders' = {}
           ELSE fbHist'.last = "halted"
      ]_vars

\* The constructor halted on a null slot 0 next to a non-null secondary.
C25_Witness ==
    /\ fbHist.last = "halted"
    /\ ~encoders[0]
    /\ \E i \in Secondaries : encoders[i]

----------------------------------------------------------------------------
(* Claims about the fused reads of FallbackEncoder, under SpecFb. *)

\* The calls that start with a synchronization pass.
PassOps == {"isOnline", "getPosition", "reset"}

\* How many times a call aligned slot i with slot j.
AlignCount(calls, i, j) ==
    Cardinality({k \in 1 .. Len(calls) : calls[k] = [slot |-> i, to |-> j]})

\* C26: the first synchronization pass that finds a non-null secondary online
\* and not marked aligned, with the primary online, aligns that secondary with
\* the primary exactly once; a pass does not align a secondary that is marked
\* aligned, whether the primary is online or not.
C26_SecondaryAlignedOnce ==
    [][fbHist'.last \in PassOps =>
         \A i \in Secondaries :
             IF i \in seenEncoders
             THEN AlignCount(fbHist'.aligns, i, 0) = 0
             ELSE (encOnline[0] /\ encoders[i] /\ encOnline[i])
                  => AlignCount(fbHist'.aligns, i, 0) = 1
      ]_vars

\* C27: when the primary was offline during a pass while an aligned secondary
\* was online, and is online again at a later pass with that secondary online
\* all along, that pass aligns the primary with such a secondary exactly once;
\* and isOnline() returns true whenever the primary or such a secondary is
\* online.
C27_PrimaryRealignedOnReturn ==
    [][fbHist'.last \in PassOps =>
         /\ (fbHist.primaryLost # {} /\ encOnline[0])
            => /\ \E i \in fbHist.primaryLost : AlignCount(fbHist'.aligns, 0, i) = 1
               /\ Cardinality({k \in 1 .. Len(fbHist'.aligns) :
                                  fbHist'.aligns[k].slot = 0}) = 1
         /\ (fbHist'.last = "isOnline" /\ (encOnline[0] \/ fbHist.primaryLost # {}))
            => fbOnlineResult'
      ]_vars

\* The slots that are non-null, online and marked aligned.
NowValid == {i \in Slots : encoders[i] /\ encOnline[i] /\ i \in seenEncoders}

C29_ReadWithoutValidSlotIsZero ==
    (fbHist.last = "getPosition" /\ NowValid = {}) =>
        /\ fbHist.slots = {}
        /\ ~fbHist.result.nan
        /\ fbHist.result.num = 0
        /\ fbHist.result.den # 0

\* C30: resetEncoderValue() forwards the reset to exactly the slots that are
\* valid after its synchronization pass, i.e. the non-null online slots that
\* were marked aligned or are found under an online primary, and afterwards
\* exactly those slots are marked aligned.
C30_ResetForwardsToValidSlots ==
    [][fbHist'.last = "reset" =>
         LET valid == {i \in Slots : /\ encoders[i] /\ encOnline[i]
                                     /\ (i \in seenEncoders \/ encOnline[0])}
         IN  /\ fbHist'.slots = valid
             /\ seenEncoders' = valid
      ]_vars

\* A reset reached a valid slot and took the mark of a secondary that had been
\* aligned.
C30_Witness ==
    /\ fbHist.last = "reset"
    /\ fbHist.slots # {}
    /\ \E i \in fbHist.aligned : encoders[i] /\ i \notin seenEncoders

\* C32: removeFromMotorManager(m), and so the destruction of motor m, empties a
\* slot of the Tx registry only if the slot holds m itself.
C32_RemoveOnlyOwnSlot ==
    [][txLast'.op = "remove" =>
         \A b \in CanBuses, i \in TxIndices :
             MotorStoreOf(b)'[i] # MotorStoreOf(b)[i] => MotorStoreOf(b)[i] = txLast'.motor
      ]_vars

----------------------------------------------------------------------------
(* Claims about reading a command frame back, under SpecParse. *)

\* C37: parseMessage of the zeroed frame a motor of index 0..7 was serialized
\* into returns the motor's desired output at position (index mod 4) and 0 at
\* the other three positions.
C37_ParseReturnsSerializedOutput ==
    txLast.op = "parse" =>
        \A k \in 0 .. 3 :
            txLast.out[k] = IF k = TxIndexOf(txLast.motor) % 4
                            THEN txMotors[txLast.motor].desiredOutput
                            ELSE 0

\* A negative output with a zero low byte, of a motor of the high frame, was
\* read back.
C37_Witness ==
    /\ txLast.op = "parse"
    /\ TxIndexOf(txLast.motor) = 6
    /\ txMotors[txLast.motor].desiredOutput = -256
    /\ txLast.out[2] = -256

----------------------------------------------------------------------------
(* Claims about DoubleDjiMotor, under SpecDouble. *)

\* C38: getOutputDesired() after setDesiredOutput(v) returns v limited to
\* [-32768, 32767], for every inversion of the two motors.
C38_DoubleOutputIsClampedCommand ==
    txLast.op = "doubleGet" =>
        txLast.result = (IF txLast.arg < -32768 THEN -32768
                         ELSE IF txLast.arg > 32767 THEN 32767
                         ELSE txLast.arg)

\* A command below the int16 range was read back as -32768 with exactly one of
\* the two motors inverted.
C38_Witness ==
    /\ txLast.op = "doubleGet"
    /\ txLast.arg < -32768
    /\ txLast.result = -32768
    /\ txMotors[1].motorInverted # txMotors[2].motorInverted

----------------------------------------------------------------------------
(* Claims about errors of DjiMotorTxHandler, under SpecTx. *)

\* C21: when sendMessage fails in a tick, the tick still attempts every valid
\* frame of every ready bus, raises the (one) non-fatal error exactly when an
\* attempted send failed, leaves both registries and every motor's desired
\* output as they were and does not halt.
C21_SendFailureIsNonFatal ==
    [][txLast'.op = "tick" =>
         LET wanted(b) == IF txLast'.ready[b]
                          THEN {k \in FrameKinds : txLast'.frames[b][k].valid}
                          ELSE {}
             attempted == {<<txLast'.sent[n].bus, txLast'.sent[n].kind>> :
                              n \in 1 .. Len(txLast'.sent)}
         IN  /\ attempted = {<<b, k>> \in CanBuses \X FrameKinds : k \in wanted(b)}
             /\ Len(txLast'.sent) = Cardinality(attempted)
             /\ txLast'.error <=> (attempted \cap txLast'.failing # {})
             /\ ~txHalted'
             /\ UNCHANGED <<txMotors, can1MotorStore, can2MotorStore>>
      ]_vars

\* The first send of a tick failed and a frame of the other bus was still sent.
C21_Witness ==
    /\ txLast.op = "tick"
    /\ txLast.error
    /\ Len(txLast.sent) >= 2
    /\ <<txLast.sent[1].bus, txLast.sent[1].kind>> \in txLast.failing
    /\ txLast.sent[Len(txLast.sent)].bus # txLast.sent[1].bus

\* C22: removeFromMotorManager raises a non-fatal error and changes no slot when
\* the motor's index is outside [0, 8) or its (bus, index) slot is empty;
\* otherwise it empties exactly that slot, and a tick serializes only motors
\* that are in a slot.
C22_RemoveFromMotorManager ==
    [][/\ txLast'.op = "remove" =>
            LET m == txLast'.motor
                bus == txMotors[m].canBus
                idx == TxIndexOf(m)
            IN  /\ ~txHalted'
                /\ IF idx \notin TxIndices \/ MotorStoreOf(bus)[idx] = Null
                   THEN /\ txLast'.error
                        /\ UNCHANGED <<can1MotorStore, can2MotorStore>>
                   ELSE /\ ~txLast'.error
                        /\ IF bus = 1
                           THEN /\ can1MotorStore' = [can1MotorStore EXCEPT ![idx] = Null]
                                /\ UNCHANGED can2MotorStore
                           ELSE /\ can2MotorStore' = [can2MotorStore EXCEPT ![idx] = Null]
                                /\ UNCHANGED can1MotorStore
       /\ txLast'.op = "tick" =>
            \A b \in CanBuses, k \in FrameKinds :
                \A m \in txLast'.frames[b][k].motors :
                    \E i \in TxIndices : MotorStoreOf(b)[i] = m
      ]_vars

\* A motor was removed while the other bus still has one registered.
C22_Witness ==
    /\ txLast.op = "remove"
    /\ ~txLast.error
    /\ \E b \in CanBuses :
         /\ txMotors[txLast.motor].canBus = b
         /\ \A i \in TxIndices : MotorStoreOf(b)[i] = Null
         /\ \E i \in TxIndices : MotorStoreOf(3 - b)[i] # Null

----------------------------------------------------------------------------
(* Claims about the command frames, under SpecCmd. *)

\* The motors registered on a bus.
RegisteredOn(b) == {m \in Motors : \E i \in TxIndices : MotorStoreOf(b)[i] = m}

\* The signed value of 2-byte slot s (0..3) of a frame's data, high byte first.
SlotValue(data, s) == Signed16(data[2 * s + 1], data[2 * s + 2])

\* C18: serializeCanSendData writes the motor's desired output, high byte first,
\* at data bytes 2*(index mod 4) and 2*(index mod 4)+1 of the caller's frame and
\* leaves the other six data bytes and the frame's identifier as they were.
C18_SerializeWritesOneSlot ==
    txLast.op = "serialize" =>
        LET s == TxIndexOf(txLast.motor) % 4
            word == txMotors[txLast.motor].desiredOutput % 65536
        IN  /\ txLast.after.data[2 * s + 1] = word \div 256
            /\ txLast.after.data[2 * s + 2] = word % 256
            /\ \A k \in (1 .. 8) \ {2 * s + 1, 2 * s + 2} :
                 txLast.after.data[k] = txLast.before.data[k]
            /\ txLast.after.identifier = txLast.before.identifier

\* A negative command of a motor of index 6 was written into bytes 4 and 5.
C18_Witness ==
    /\ txLast.op = "serialize"
    /\ TxIndexOf(txLast.motor) = 6
    /\ txMotors[txLast.motor].desiredOutput < 0
    /\ txLast.after.data[5] >= 128
    /\ txLast.after.data[1] = 17

\* C19: in every frame a tick sends, each 2-byte slot holds the desired output
\* of the one registered motor of that bus mapped to that frame and slot, or
\* zero when there is none; and nothing is sent on a bus with no registered
\* motor.
C19_SentSlotsMotorOrZero ==
    txLast.op = "tick" =>
        /\ \A n \in 1 .. Len(txLast.sent), s \in 0 .. 3 :
             LET f == txLast.sent[n]
                 ms == {m \in RegisteredOn(f.bus) :
                           ExpectedFrameKind(m) = f.kind /\ TxIndexOf(m) % 4 = s}
             IN  /\ Cardinality(ms) <= 1
                 /\ \A m \in ms : SlotValue(f.data, s) = txMotors[m].desiredOutput
                 /\ ms = {} => SlotValue(f.data, s) = 0
        /\ \A b \in CanBuses : RegisteredOn(b) = {} => SentKinds(b) = {}

\* Motors 0x201 and 0x203 on bus 1 with outputs 1000 and -500: one low frame
\* decoding to [1000, 0, -500, 0], nothing on bus 2.
C19_Witness ==
    /\ txLast.op = "tick"
    /\ Len(txLast.sent) = 1
    /\ txLast.sent[1].bus = 1
    /\ txLast.sent[1].kind = "low"
    /\ [s \in 0 .. 3 |-> SlotValue(txLast.sent[1].data, s)] =
           [s \in 0 .. 3 |-> IF s = 0 THEN 1000 ELSE IF s = 2 THEN -500 ELSE 0]
    /\ txLast.ready[2]

\* C20: setDesiredOutput sends nothing and touches no registry slot; every frame
\* a tick sends carries, for each registered motor in it, the value of that
\* motor's most recent setDesiredOutput (0 if none), negated on an inverted
\* motor: nothing older is ever transmitted.
C20_LatestCommandWins ==
    /\ txLast.op = "set" => txLast.sent = <<>>
    /\ txLast.op = "tick" =>
         \A n \in 1 .. Len(txLast.sent) :
             \A m \in RegisteredOn(txLast.sent[n].bus) :
                 ExpectedFrameKind(m) = txLast.sent[n].kind =>
                     SlotValue(txLast.sent[n].data, TxIndexOf(m) % 4) =
                         LET latest == limitVal(txMotors[m].lastCommand, -32768, 32767)
                         IN  IF txMotors[m].motorInverted THEN -latest ELSE latest

\* A tick sent the latest command of a motor on a ready bus, while the command
\* of a motor on the other bus, which was not ready, was not sent.
C20_Witness ==
    /\ txLast.op = "tick"
    /\ \E b \in CanBuses :
         /\ txLast.ready[b] /\ ~txLast.ready[3 - b]
         /\ \E m \in RegisteredOn(b) : txMotors[m].lastCommand = 500
         /\ \E m \in RegisteredOn(3 - b) : txMotors[m].lastCommand # 0
         /\ SentKinds(b) # {}
         /\ SentKinds(3 - b) = {}

----------------------------------------------------------------------------
(* Claims about RefSerial (SpecRef). *)

RECURSIVE DamageSum(_)
DamageSum(events) ==
    IF events = <<>> THEN 0 ELSE Head(events).damageAmount + DamageSum(Tail(events))

\* C39: after any sequence of received referee messages, receivedDps equals
\* the sum of damageAmount over the events held in receivedDpsTracker, also
\* when a damage event arrives while the tracker is full and when events
\* older than one second are expired.
C39_ReceivedDpsIsTrackerSum ==
    refSerial.receivedDps = DamageSum(refSerial.receivedDpsTracker)

----------------------------------------------------------------------------
(* Claims about UnjamIntegralCommand (SpecUnjamLive). *)

UnjamRunning == unjamCommand.scheduled = "running"

\* What holds of a command that has been initialized: JAM_CLEARED means both
\* thresholds were cleared, and the command ended for one of the three
\* reasons, calling clearJam() exactly in the JAM_CLEARED case.
UnjamEndsAsStated ==
    /\ (unjamCommand.scheduled # "constructed"
        /\ unjamCommand.currUnjamState = "JAM_CLEARED")
           => unjamCommand.forwardsCleared /\ unjamCommand.backwardsCleared
    /\ unjamCommand.last.op = "end" =>
           /\ \/ unjamCommand.currUnjamState = "JAM_CLEARED"
              \/ ~unjamCommand.last.online
              \/ unjamCommand.backwardsCount >= unjamCommand.config.targetCycleCount + 1
           /\ unjamCommand.last.clearJam <=> unjamCommand.currUnjamState = "JAM_CLEARED"

\* C40: after initialize(), if execute() keeps being called and every
\* phase's timeout eventually expires, isFinished() eventually becomes true;
\* the command ends when both thresholds have been cleared (JAM_CLEARED),
\* when the subsystem is offline, or once targetCycleCount + 1 backward
\* phases have begun, and end() calls clearJam() only when JAM_CLEARED.
C40_UnjamEventuallyFinished ==
    /\ []UnjamEndsAsStated
    /\ UnjamRunning ~> UnjamIsFinished

\* The command ended because targetCycleCount + 1 backward phases had begun,
\* online and without both thresholds cleared, and clearJam() was not called.
C40_Witness ==
    /\ unjamCommand.last.op = "end"
    /\ unjamCommand.last.online
    /\ ~unjamCommand.last.clearJam
    /\ unjamCommand.currUnjamState # "JAM_CLEARED"
    /\ unjamCommand.backwardsCount = unjamCommand.config.targetCycleCount + 1

====
